---- MODULE Spec2Model ----
(***************************************************************************)
(* Model of the qualitative causal reasoning engine of backend/app:        *)
(* ReasoningEngine (engine.py) with the data model of models.py.           *)
(*                                                                         *)
(* Encoding.  Node ids are the naturals 1..4 ordered as the id strings     *)
(* are ordered by sorted().  Python floats are fixed-point integers with   *)
(* One = 1.0 (so 0.05 is 50, 0.7 is 700); a product a*b is (a*b) \div One. *)
(* A dict is a function whose DOMAIN is its key set.  An Optional number   *)
(* is None (-1), an Optional string is NoneStr, an Optional record is a    *)
(* sequence of length 0 or 1.                                              *)
(***************************************************************************)
EXTENDS Integers, Sequences, FiniteSets, TLC

One == 1000
None == -1
NoneStr == "None"

Min2(a, b) == IF a < b THEN a ELSE b
Max2(a, b) == IF a > b THEN a ELSE b
Abs(a) == IF a < 0 THEN 0 - a ELSE a
Mul(a, b) == (a * b) \div One

(* dict.get(key, default) and dict assignment *)
DictGet(d, k, default) == IF k \in DOMAIN d THEN d[k] ELSE default
DictSet(d, k, v) == (k :> v) @@ d

(* Python's order of two key tuples of numbers *)
KeyGT(a, b) == \E i \in 1..Len(a) : a[i] > b[i] /\ \A j \in 1..(i - 1) : a[j] = b[j]

(* list.sort(key, reverse=True): stable, descending; keys[i] is the key tuple of seq[i] *)
SortDescBy(seq, keys) ==
  CHOOSE sorted \in
    {[p \in 1..Len(s) |->
        s[CHOOSE i \in 1..Len(s) :
            Cardinality({j \in 1..Len(s) : KeyGT(k[j], k[i]) \/ (k[j] = k[i] /\ j < i)}) = p - 1]] :
       s \in {seq}, k \in {keys}} : TRUE

(* sorted(ids) / list.sort() on node ids *)
SortAsc(seq) == SortDescBy(seq, [i \in 1..Len(seq) |-> <<0 - seq[i]>>])

TIME_MAP == [immediate |-> 0, minutes |-> 1, hours |-> 2, days |-> 3]
REV_TIME_MAP == [t \in 0..3 |-> CHOOSE k \in DOMAIN TIME_MAP : TIME_MAP[k] = t]
POSITIVE_RELATIONS ==
  {"increases", "converts_to", "requires", "enables", "precedes",
   "part_of", "causes", "refines", "derives"}

(***************************************************************************)
(* models.py records                                                       *)
(***************************************************************************)
Node(id) ==
  [id |-> id, time_constant |-> "acute", baseline_level |-> 0,
   min_level |-> 0 - One, max_level |-> One]

EdgePhase(at) ==
  [at |-> at, rel |-> NoneStr, weight |-> None, priority |-> NoneStr,
   activation_direction |-> NoneStr, activation_threshold |-> None]

Edge(source, target, rel) ==
  [source |-> source, target |-> target, rel |-> rel, weight |-> One,
   delay |-> "immediate", priority |-> "medium", activation_direction |-> "any",
   activation_threshold |-> None, context |-> <<>>, temporal_profile |-> <<>>,
   legacy_timing |-> FALSE]

SimulationOptions ==
  [max_hops |-> 5, min_confidence |-> 100, min_effect_size |-> 50, time_window |-> "all"]

(***************************************************************************)
(* ReasoningEngine helpers                                                 *)
(***************************************************************************)
_clampNothing(value, floor, ceiling) == value

_clamp(value, floor, ceiling) == Max2(floor, Min2(ceiling, value))

_effect_size_to_magnitude(effect_size) ==
  IF effect_size < 100 THEN "none"
  ELSE IF effect_size < 300 THEN "small"
  ELSE IF effect_size < 650 THEN "medium"
  ELSE "large"

_propagate_directionNoFlip(direction, rel) ==
  IF direction = "unknown" \/ direction = "unchanged" THEN direction
  ELSE IF rel \in POSITIVE_RELATIONS \/ rel = "decreases" THEN direction
  ELSE "unknown"

_propagate_direction(direction, rel) ==
  IF direction = "unknown" \/ direction = "unchanged" THEN direction
  ELSE IF rel \in POSITIVE_RELATIONS THEN direction
  ELSE IF rel = "decreases" THEN (IF direction = "up" THEN "down" ELSE "up")
  ELSE "unknown"

(* the same with the phase weight read as "phase.weight or edge.weight" *)
_compile_phaseOrWeight(edge, phase) ==
  [source |-> edge.source,
   target |-> edge.target,
   at |-> phase.at,
   at_tick |-> TIME_MAP[phase.at],
   rel |-> IF phase.rel # NoneStr THEN phase.rel ELSE edge.rel,
   weight |-> IF phase.weight # None /\ phase.weight # 0 THEN phase.weight ELSE edge.weight,
   priority |-> IF phase.priority # NoneStr THEN phase.priority ELSE edge.priority,
   activation_direction |-> IF phase.activation_direction # NoneStr
                            THEN phase.activation_direction ELSE edge.activation_direction,
   activation_threshold |-> IF phase.activation_threshold # None
                            THEN phase.activation_threshold ELSE edge.activation_threshold,
   context |-> edge.context,
   is_legacy_timing |-> edge.legacy_timing \/ edge.temporal_profile = <<>>]

_compile_phase(edge, phase) ==
  [source |-> edge.source,
   target |-> edge.target,
   at |-> phase.at,
   at_tick |-> TIME_MAP[phase.at],
   rel |-> IF phase.rel # NoneStr THEN phase.rel ELSE edge.rel,
   weight |-> IF phase.weight # None THEN phase.weight ELSE edge.weight,
   priority |-> IF phase.priority # NoneStr THEN phase.priority ELSE edge.priority,
   activation_direction |-> IF phase.activation_direction # NoneStr
                            THEN phase.activation_direction ELSE edge.activation_direction,
   activation_threshold |-> IF phase.activation_threshold # None
                            THEN phase.activation_threshold ELSE edge.activation_threshold,
   context |-> edge.context,
   is_legacy_timing |-> edge.legacy_timing \/ edge.temporal_profile = <<>>]

RECURSIVE _compile_edges(_)
_compile_edges(edges) ==
  IF edges = <<>> THEN <<>>
  ELSE LET edge == Head(edges)
           phases == IF edge.temporal_profile # <<>> THEN edge.temporal_profile
                     ELSE <<EdgePhase(edge.delay)>>
       IN [k \in 1..Len(phases) |-> _compile_phase(edge, phases[k])]
          \o _compile_edges(Tail(edges))

(* adj / rev_adj as built by __init__: only nodes with an edge get a key *)
BuildAdj(compiled, field) ==
  [n \in {compiled[k][field] : k \in 1..Len(compiled)} |->
     SelectSeq(compiled, LAMBDA e : e[field] = n)]

(* a key the request does not mention is taken to match *)
_context_matchesPresentOnly(edge, context) ==
  \A key \in DOMAIN edge.context \cap DOMAIN context : context[key] = edge.context[key]

_context_matches(edge, context) ==
  \A key \in DOMAIN edge.context : DictGet(context, key, FALSE) = edge.context[key]

(* the threshold gate without the test of the direction *)
_activation_threshold_gainAnyDirection(edge, source_dir, source_strength) ==
  IF edge.activation_threshold = None THEN One
  ELSE IF source_strength >= edge.activation_threshold THEN One ELSE 0

_activation_threshold_gain(edge, source_dir, source_strength) ==
  IF edge.activation_threshold = None THEN One
  ELSE IF edge.activation_direction # "any" /\ source_dir # edge.activation_direction THEN 0
  ELSE IF source_strength >= edge.activation_threshold THEN One ELSE 0

_source_level(node, tick, activity_of_node) ==
  LET activity == DictGet(activity_of_node, tick, 0)
      level == node.baseline_level + activity
  IN Max2(node.min_level, Min2(node.max_level, level))

(* no damping at all *)
_saturation_gainNone(node, source_dir, source_level) == One

_saturation_gain(node, source_dir, source_level) ==
  IF node.min_level <= 0 - One /\ node.max_level >= One THEN One
  ELSE IF source_dir = "down"
       THEN (IF source_level <= node.min_level + 50 THEN 50 ELSE One)
  ELSE IF source_dir = "up"
       THEN (IF source_level >= node.max_level - 50 THEN 50 ELSE One)
  ELSE One

_time_constant_gain(node) ==
  IF node.time_constant = "acute" THEN One
  ELSE IF node.time_constant = "subacute" THEN 750
  ELSE 500

(* the f-string of _generate_step_description, kept as its parts *)
_generate_step_description(source_id, target_id, source_dir, target_dir, rel, timescale) ==
  LET target_state == IF target_dir = "up" THEN "Increased"
                      ELSE IF target_dir = "down" THEN "Decreased" ELSE target_dir
      timing_prefix == IF timescale # "immediate" THEN timescale ELSE ""
      verb == IF source_dir = "up" /\ rel \in POSITIVE_RELATIONS THEN "promotes"
              ELSE IF source_dir = "up" /\ rel = "decreases" THEN "inhibits"
              ELSE IF source_dir = "down" /\ rel \in POSITIVE_RELATIONS THEN "fails to promote"
              ELSE IF source_dir = "down" /\ rel = "decreases" THEN "disinhibits"
              ELSE "affects"
      source_state == IF verb \in {"promotes", "inhibits"} THEN "Increased"
                      ELSE IF verb = "affects" THEN source_dir ELSE "Reduced"
  IN [timing_prefix |-> timing_prefix, source_state |-> source_state, source |-> source_id,
      verb |-> verb, target |-> target_id, target_state |-> target_state]

(***************************************************************************)
(* _resolve_influence                                                      *)
(***************************************************************************)
pri_mapFlat(priority) == 2

pri_map(priority) ==
  CASE priority = "low" -> 1
    [] priority = "medium" -> 2
    [] priority = "high" -> 3
    [] priority = "ultra" -> 10
    [] OTHER -> 2

RECURSIVE SumField(_, _)
SumField(infs, field) ==
  IF infs = <<>> THEN 0 ELSE Head(infs)[field] + SumField(Tail(infs), field)

WithDirection(infs, direction) == SelectSeq(infs, LAMBDA inf : inf.direction = direction)

AllIndexes(influences) == [i \in 1..Len(influences) |-> i]

(* max_pri and top_influences, as indexes into the bucket *)
TopIndexes(influences) ==
  LET n == Len(influences)
      ranks == {pri_map(influences[i].priority) : i \in 1..n}
      max_pri == CHOOSE r \in ranks : \A q \in ranks : q <= r
  IN SelectSeq([i \in 1..n |-> i], LAMBDA i : pri_map(influences[i].priority) = max_pri)

(* max(winning, key=(effect_size, confidence)): the first maximal element, as an index *)
DominantKey(inf) == <<inf.effect_size, inf.confidence>>

DominantIndex(influences, winning_idx) ==
  winning_idx[CHOOSE k \in 1..Len(winning_idx) :
                /\ \A j \in 1..Len(winning_idx) :
                     ~KeyGT(DominantKey(influences[winning_idx[j]]),
                            DominantKey(influences[winning_idx[k]]))
                /\ \A j \in 1..(k - 1) :
                     KeyGT(DominantKey(influences[winning_idx[k]]),
                           DominantKey(influences[winning_idx[j]]))]

BranchKey(inf) == <<inf.effect_size, inf.confidence, Len(inf.path)>>

(* the same loop without the cap of three branches *)
RECURSIVE TraceOnlyBranchesUncapped(_, _, _, _, _)
TraceOnlyBranchesUncapped(influences, sorted_idx, dominant, seen_trace_keys, branches) ==
  IF sorted_idx = <<>> THEN branches
  ELSE LET i == Head(sorted_idx)
           inf == influences[i]
           trace_key == <<inf.direction, inf.path>>
       IN IF i = dominant \/ trace_key \in seen_trace_keys
          THEN TraceOnlyBranchesUncapped(influences, Tail(sorted_idx), dominant,
                                         seen_trace_keys, branches)
          ELSE TraceOnlyBranchesUncapped(influences, Tail(sorted_idx), dominant,
                 seen_trace_keys \cup {trace_key},
                 Append(branches,
                        [direction |-> inf.direction,
                         confidence |-> _clamp(Mul(inf.confidence, 700), 0, One),
                         effect_size |-> _clamp(inf.effect_size, 0, One),
                         path |-> inf.path,
                         steps |-> inf.steps]))

(* the loop over sorted_top that fills trace_only_branches *)
RECURSIVE TraceOnlyBranches(_, _, _, _, _)
TraceOnlyBranches(influences, sorted_idx, dominant, seen_trace_keys, branches) ==
  IF sorted_idx = <<>> \/ Len(branches) >= 3 THEN branches
  ELSE LET i == Head(sorted_idx)
           inf == influences[i]
           trace_key == <<inf.direction, inf.path>>
       IN IF i = dominant \/ trace_key \in seen_trace_keys
          THEN TraceOnlyBranches(influences, Tail(sorted_idx), dominant, seen_trace_keys, branches)
          ELSE CHOOSE out \in
                 {TraceOnlyBranches(influences, Tail(sorted_idx), dominant, seen, appended) :
                    seen \in {seen_trace_keys \cup {trace_key}},
                    appended \in {Append(branches,
                                    [direction |-> inf.direction,
                                     confidence |-> _clamp(Mul(inf.confidence, 700), 0, One),
                                     effect_size |-> _clamp(inf.effect_size, 0, One),
                                     path |-> inf.path,
                                     steps |-> inf.steps])}} : TRUE

(* lines 339-344: neither score exceeds the other *)
IsBalancedOnlyZero(up_score, down_score) == up_score = 0 /\ down_score = 0

IsBalanced(up_score, down_score) == ~(up_score > down_score) /\ ~(down_score > up_score)

NoResolution ==
  [resolved |-> <<>>, dominant_hops |-> 0, dominant |-> 0, trace_only_branches |-> <<>>]

(* result: resolved is <<>> for None or <<AffectedNode>>; dominant is the index of the
   dominant influence in the bucket (0 for None) *)
_resolve_influence(influences, node_id, tick) ==
  IF influences = <<>> THEN NoResolution
  ELSE
    LET top_idx == TopIndexes(influences)
        top_influences == [k \in 1..Len(top_idx) |-> influences[top_idx[k]]]
        up_score == SumField(WithDirection(top_influences, "up"), "effect_size")
        down_score == SumField(WithDirection(top_influences, "down"), "effect_size")
    IN IF IsBalanced(up_score, down_score) THEN NoResolution
       ELSE
         LET direction == IF up_score > down_score THEN "up" ELSE "down"
             winning_idx == SelectSeq(top_idx, LAMBDA i : influences[i].direction = direction)
             winning == [k \in 1..Len(winning_idx) |-> influences[winning_idx[k]]]
             losing_sum == IF direction = "up" THEN down_score ELSE up_score
             effect_size == _clamp(Abs(up_score - down_score), 0, One)
             opposition_ratio == (losing_sum * One) \div Max2(10, up_score + down_score)
             mean_confidence == SumField(winning, "confidence") \div Max2(1, Len(winning))
             confidence == _clamp(Mul(mean_confidence, One - (opposition_ratio \div 2)), 100, One)
             dominant == DominantIndex(influences, winning_idx)
             dominant_hops == Max2(0, Len(influences[dominant].path) - 1)
             sorted_top == SortDescBy(top_idx,
                             [k \in 1..Len(top_idx) |-> BranchKey(influences[top_idx[k]])])
         IN [resolved |-> << [node_id |-> node_id,
                              direction |-> direction,
                              magnitude |-> _effect_size_to_magnitude(effect_size),
                              confidence |-> confidence,
                              effect_size |-> effect_size,
                              timescale |-> REV_TIME_MAP[tick],
                              tick |-> tick] >>,
             dominant_hops |-> dominant_hops,
             dominant |-> dominant,
             trace_only_branches |-> TraceOnlyBranches(influences, sorted_top, dominant, {}, <<>>)]

(***************************************************************************)
(* Trace store                                                             *)
(***************************************************************************)
TraceKeyConfidence(trace) == <<trace.confidence, 0>>

TraceKey(trace) == <<trace.confidence, Len(trace.path)>>

(* traces maps every node id to its list; the empty list stands for a missing key *)
_upsert_trace(traces, target_id, path, steps, confidence) ==
  LET new_trace == [path |-> path, steps |-> steps, confidence |-> confidence]
      old == traces[target_id]
      hits == {i \in 1..Len(old) : old[i].path = path}
  IN IF old = <<>> THEN [traces EXCEPT ![target_id] = <<new_trace>>]
     ELSE
       LET updated ==
             IF hits # {}
             THEN LET i == CHOOSE i \in hits : \A j \in hits : i <= j
                  IN IF confidence > old[i].confidence
                     THEN [old EXCEPT ![i] = new_trace] ELSE old
             ELSE Append(old, new_trace)
       IN CHOOSE out \in
            {[traces EXCEPT ![target_id] = SubSeq(sorted, 1, Min2(10, Len(sorted)))] :
               sorted \in {SortDescBy(updated, [k \in 1..Len(updated) |-> TraceKey(updated[k])])}} : TRUE

(* the branch's own path written under the target, without the target appended *)
RECURSIVE _emit_secondary_trace_branchesOwnPath(_, _, _, _, _, _)
_emit_secondary_trace_branchesOwnPath(traces, source_id, source_branch, outgoing_edges, context, min_confidence) ==
  IF source_branch.effect_size <= 0 \/ outgoing_edges = <<>> THEN traces
  ELSE
    LET edge == Head(outgoing_edges)
        trace_confidence == _clamp(Mul(source_branch.confidence, 700), 0, One)
        skip == \/ ~_context_matches(edge, context)
                \/ _propagate_direction(source_branch.direction, edge.rel) \in {"unknown", "unchanged"}
                \/ trace_confidence < min_confidence
        traces1 == IF skip THEN traces
                   ELSE _upsert_trace(traces, edge.target, source_branch.path,
                                      source_branch.steps, trace_confidence)
    IN CHOOSE out \in {_emit_secondary_trace_branchesOwnPath(t1, source_id, source_branch,
                                                             Tail(outgoing_edges), context,
                                                             min_confidence) : t1 \in {traces1}} : TRUE

RECURSIVE _emit_secondary_trace_branches(_, _, _, _, _, _)
_emit_secondary_trace_branches(traces, source_id, source_branch, outgoing_edges, context, min_confidence) ==
  IF source_branch.effect_size <= 0 \/ outgoing_edges = <<>> THEN traces
  ELSE
    LET edge == Head(outgoing_edges)
        target_dir == _propagate_direction(source_branch.direction, edge.rel)
        trace_confidence == _clamp(Mul(source_branch.confidence, 700), 0, One)
        skip == \/ ~_context_matches(edge, context)
                \/ target_dir \in {"unknown", "unchanged"}
                \/ trace_confidence < min_confidence
        path == Append(source_branch.path, edge.target)
        steps == Append(source_branch.steps,
                   _generate_step_description(source_id, edge.target, source_branch.direction,
                                              target_dir, edge.rel, edge.at))
        traces1 == IF skip THEN traces
                   ELSE _upsert_trace(traces, edge.target, path, steps, trace_confidence)
    IN CHOOSE out \in {_emit_secondary_trace_branches(t1, source_id, source_branch,
                                                       Tail(outgoing_edges), context,
                                                       min_confidence) : t1 \in {traces1}} : TRUE

RECURSIVE EmitAllBranches(_, _, _, _, _, _)
EmitAllBranches(traces, source_id, branches, outgoing_edges, context, min_confidence) ==
  IF branches = <<>> THEN traces
  ELSE CHOOSE out \in
         {EmitAllBranches(t1, source_id, Tail(branches), outgoing_edges, context, min_confidence) :
            t1 \in {_emit_secondary_trace_branches(traces, source_id, Head(branches),
                                                   outgoing_edges, context, min_confidence)}} : TRUE

(***************************************************************************)
(* Inputs: the graph and the request                                       *)
(***************************************************************************)
MaxEdges == 3
MaxPerturbations == 2
MaxHops == 2

NodeIds == 1..4
Ticks == 0..3
UnknownNode == 9

WithProfile(edge, phases) == [edge EXCEPT !.temporal_profile = phases]
Phase(at, rel, weight) == [EdgePhase(at) EXCEPT !.rel = rel, !.weight = weight]

(* logical edges a knowledge pack may declare, in load order *)
EdgeCatalogue ==
  << Edge(1, 2, "increases"),
     Edge(2, 3, "decreases"),
     Edge(1, 3, "enables"),
     WithProfile(Edge(1, 2, "increases"),
                 <<Phase("immediate", "increases", 600), Phase("hours", "decreases", 200)>>),
     [Edge(3, 2, "decreases") EXCEPT !.priority = "high", !.weight = 500],
     [Edge(2, 2, "decreases") EXCEPT !.weight = 500],
     WithProfile(Edge(1, 4, "increases"), <<EdgePhase("hours")>>),
     [Edge(4, 3, "causes") EXCEPT !.delay = "hours", !.context = ("ckd" :> TRUE)] >>

PerturbationCatalogue ==
  << [node_id |-> 1, op |-> "increase"],
     [node_id |-> 1, op |-> "decrease"],
     [node_id |-> 2, op |-> "block"],
     [node_id |-> 3, op |-> "set"],
     [node_id |-> UnknownNode, op |-> "increase"] >>

(* the sub-list of seq at the indexes S, in list order *)
SubList(seq, S) ==
  LET idx == SelectSeq([i \in 1..Len(seq) |-> i], LAMBDA i : i \in S)
  IN [k \in 1..Len(idx) |-> seq[idx[k]]]

SubLists(seq, max) ==
  {SubList(seq, S) : S \in {T \in SUBSET (1..Len(seq)) : Cardinality(T) <= max}}

Graphs == SubLists(EdgeCatalogue, MaxEdges)
PerturbationLists == SubLists(PerturbationCatalogue, MaxPerturbations)

OptionChoices ==
  {[SimulationOptions EXCEPT !.max_hops = h] : h \in 0..MaxHops}
  \cup {[SimulationOptions EXCEPT !.time_window = w] :
          w \in {"immediate", "minutes", "hours", "days", "all"}}

ContextChoices == {<<>>, ("ckd" :> TRUE)}

Requests ==
  {[perturbations |-> p, context |-> <<>>, options |-> o] :
     p \in PerturbationLists, o \in OptionChoices}
  \cup {[perturbations |-> p, context |-> c, options |-> SimulationOptions] :
          p \in PerturbationLists, c \in ContextChoices}

(***************************************************************************)
(* State                                                                   *)
(***************************************************************************)
VARIABLES
  nodes, edges, compiled_edges, adj, rev_adj, latest_node_states,  \* the engine
  request, pc, max_tick, tick,                                     \* the running simulate call
  influence_buffer, node_states, state_order, node_activity, traces,
  propagated_directions, nodes_to_resolve, queued_nodes,
  response,                                                        \* its return value
  last,                                                            \* what the last loop iteration did
  hist                                                             \* request -> response of earlier calls

engine_vars == <<nodes, edges, compiled_edges, adj, rev_adj>>
sim_vars == <<max_tick, tick, influence_buffer, node_states, state_order, node_activity,
              traces, propagated_directions, nodes_to_resolve, queued_nodes>>
vars == <<nodes, edges, compiled_edges, adj, rev_adj, latest_node_states, request, pc,
          max_tick, tick, influence_buffer, node_states, state_order, node_activity, traces,
          propagated_directions, nodes_to_resolve, queued_nodes, response, last, hist>>

EmptyBuffer == [n \in NodeIds |-> [t \in Ticks |-> <<>>]]
EmptyDicts == [n \in NodeIds |-> <<>>]
NoResponse == <<>>
NoLast == [node |-> 0, tick |-> 0, outcome |-> "start", deliveries |-> <<>>]

NoRequest == [perturbations |-> <<>>, context |-> <<>>, options |-> SimulationOptions]

(* before the engine is constructed: no graph, no call *)
Init ==
  /\ nodes = <<>>
  /\ edges = <<>>
  /\ compiled_edges = <<>>
  /\ adj = <<>>
  /\ rev_adj = <<>>
  /\ latest_node_states = <<>>
  /\ request = NoRequest
  /\ pc = "new"
  /\ max_tick = 0
  /\ tick = 0
  /\ influence_buffer = EmptyBuffer
  /\ node_states = EmptyDicts
  /\ state_order = <<>>
  /\ node_activity = EmptyDicts
  /\ traces = [n \in NodeIds |-> <<>>]
  /\ propagated_directions = [n \in NodeIds |-> [t \in Ticks |-> {}]]
  /\ nodes_to_resolve = <<>>
  /\ queued_nodes = {}
  /\ response = NoResponse
  /\ last = NoLast
  /\ hist = <<>>

(* ReasoningEngine.__init__ on the nodes and edges of a loaded graph *)
ConstructWith(graphs) ==
  /\ pc = "new"
  /\ \E graph \in graphs :
       /\ nodes' = [n \in NodeIds |-> Node(n)]
       /\ edges' = graph
       /\ compiled_edges' = _compile_edges(graph)
       /\ adj' = BuildAdj(_compile_edges(graph), "source")
       /\ rev_adj' = BuildAdj(_compile_edges(graph), "target")
  /\ latest_node_states' = EmptyDicts
  /\ pc' = "idle"
  /\ UNCHANGED <<request, sim_vars, response, last, hist>>

(* a caller invokes engine.simulate(request) *)
CallWith(requests) ==
  /\ pc = "idle"
  /\ request' \in requests
  /\ pc' = "start"
  /\ UNCHANGED <<engine_vars, latest_node_states, sim_vars, response, last, hist>>

Construct == ConstructWith(Graphs)

Call == CallWith(Requests)

(***************************************************************************)
(* simulate, lines 47-74: locals and seeding                               *)
(***************************************************************************)
SeedDirection(op) ==
  IF op = "increase" THEN "up"
  ELSE IF op \in {"decrease", "block"} THEN "down"
  ELSE "unchanged"

(* a seed at the priority of an ordinary edge *)
SeedInfluenceMedium(p) ==
  [direction |-> SeedDirection(p.op), confidence |-> One, effect_size |-> One,
   priority |-> "medium", path |-> <<p.node_id>>, steps |-> <<>>]

SeedInfluence(p) ==
  [direction |-> SeedDirection(p.op), confidence |-> One, effect_size |-> One,
   priority |-> "ultra", path |-> <<p.node_id>>, steps |-> <<>>]

(* seeding that gives up at the first unknown node *)
RECURSIVE SeedBufferUntilUnknown(_, _, _)
SeedBufferUntilUnknown(buffer, perturbations, known) ==
  IF perturbations = <<>> \/ Head(perturbations).node_id \notin known THEN buffer
  ELSE SeedBufferUntilUnknown(
         [buffer EXCEPT ![Head(perturbations).node_id][0] = Append(@, SeedInfluence(Head(perturbations)))],
         Tail(perturbations), known)

RECURSIVE SeedBuffer(_, _, _)
SeedBuffer(buffer, perturbations, known) ==
  IF perturbations = <<>> THEN buffer
  ELSE LET p == Head(perturbations)
           buffer1 == IF p.node_id \notin known THEN buffer
                      ELSE [buffer EXCEPT ![p.node_id][0] = Append(@, SeedInfluence(p))]
       IN SeedBuffer(buffer1, Tail(perturbations), known)

MaxTickOf(time_window) ==
  IF time_window # "all" THEN DictGet(TIME_MAP, time_window, 3) ELSE 3

(* the same call entry, but starting from the engine's snapshot of the last simulation *)
SeedFromSnapshot ==
  /\ pc = "start"
  /\ pc' = "tick"
  /\ max_tick' = MaxTickOf(request.options.time_window)
  /\ tick' = 0
  /\ influence_buffer' = SeedBuffer(EmptyBuffer, request.perturbations, DOMAIN nodes)
  /\ node_states' = latest_node_states
  /\ state_order' = <<>>
  /\ node_activity' = EmptyDicts
  /\ traces' = [n \in NodeIds |-> <<>>]
  /\ propagated_directions' = [n \in NodeIds |-> [t \in Ticks |-> {}]]
  /\ nodes_to_resolve' = <<>>
  /\ queued_nodes' = {}
  /\ response' = NoResponse
  /\ last' = NoLast
  /\ UNCHANGED <<engine_vars, latest_node_states, request, hist>>

Seed ==
  /\ pc = "start"
  /\ pc' = "tick"
  /\ max_tick' = MaxTickOf(request.options.time_window)
  /\ tick' = 0
  /\ influence_buffer' = SeedBuffer(EmptyBuffer, request.perturbations, DOMAIN nodes)
  /\ node_states' = EmptyDicts
  /\ state_order' = <<>>
  /\ node_activity' = EmptyDicts
  /\ traces' = [n \in NodeIds |-> <<>>]
  /\ propagated_directions' = [n \in NodeIds |-> [t \in Ticks |-> {}]]
  /\ nodes_to_resolve' = <<>>
  /\ queued_nodes' = {}
  /\ response' = NoResponse
  /\ last' = NoLast
  /\ UNCHANGED <<engine_vars, latest_node_states, request, hist>>

(* a ready list that is only built for tick 0 *)
ReadyNodesFirstTick(buffer, t) ==
  LET ready == {n \in NodeIds : t = 0 /\ buffer[n][t] # <<>>}
  IN [p \in 1..Cardinality(ready) |->
        CHOOSE n \in ready : Cardinality({m \in ready : m < n}) = p - 1]

(* lines 77-81: the ready list of a tick *)
ReadyNodes(buffer, t) ==
  LET ready == {n \in NodeIds : buffer[n][t] # <<>>}
  IN [p \in 1..Cardinality(ready) |->
        CHOOSE n \in ready : Cardinality({m \in ready : m < n}) = p - 1]

BeginTick ==
  /\ pc = "tick"
  /\ pc' = "loop"
  /\ nodes_to_resolve' = ReadyNodes(influence_buffer, tick)
  /\ queued_nodes' = {n \in NodeIds : influence_buffer[n][tick] # <<>>}
  /\ UNCHANGED <<engine_vars, latest_node_states, request, max_tick, tick, influence_buffer,
                 node_states, state_order, node_activity, traces, propagated_directions,
                 response, last, hist>>

(***************************************************************************)
(* simulate, lines 83-192: one iteration of the while loop                 *)
(***************************************************************************)
(* line 84: nodes_to_resolve.pop(0) leaves the rest of the list *)
PopFrontPeek(queue) == queue

PopFront(queue) == Tail(queue)

(* lines 99-106: the stability check *)
IsStable(states_of_node, t, resolved) ==
  /\ t \in DOMAIN states_of_node
  /\ states_of_node[t].direction = resolved.direction
  /\ Abs(states_of_node[t].confidence - resolved.confidence) < 10
  /\ Abs(states_of_node[t].effect_size - resolved.effect_size) < 10

(* lines 112-115 *)
CanPropagateAnyDepth(dominant_hops, max_hops, direction, propagated) ==
  direction \notin propagated

(* the same without the memo of propagated directions *)
CanPropagateNoMemo(dominant_hops, max_hops, direction, propagated) ==
  dominant_hops < max_hops

CanPropagate(dominant_hops, max_hops, direction, propagated) ==
  dominant_hops < max_hops /\ direction \notin propagated

(* self.adj.get(node_id, []) *)
Outgoing(adjacency, node_id) == DictGet(adjacency, node_id, <<>>)

(* lines 161-163 *)
NextTickNow(t, edge) == t

NextTickOf(t, edge) == t + edge.at_tick

DroppedNever(next_tick, mt) == FALSE

Dropped(next_tick, mt) == next_tick > mt

(* lines 131-192: the body of the fan-out loop for one compiled edge; st holds the
   buffers the loop writes, c the values fixed before the loop *)
FanOutEdge(st, edge, c) ==
  LET source_dir_for_path == c.dominant.direction
      target_id == edge.target
      target_dir == _propagate_direction(source_dir_for_path, edge.rel)
      source_level == _source_level(c.node, c.tick, c.activity)
      source_strength == Abs(source_level)
      threshold_gain == _activation_threshold_gain(edge, source_dir_for_path, source_strength)
      saturation_gain == _saturation_gain(c.node, source_dir_for_path, source_level)
      time_gain == IF ~edge.is_legacy_timing THEN One ELSE _time_constant_gain(c.node)
      target_effect_size ==
        _clamp(Mul(Mul(Mul(Mul(c.resolved.effect_size, edge.weight), threshold_gain),
                       saturation_gain), time_gain), 0, One)
      target_conf == _clamp(Mul(Mul(c.resolved.confidence, threshold_gain), saturation_gain),
                            0, One)
      next_tick == NextTickOf(c.tick, edge)
      skip == \/ ~_context_matches(edge, c.context)
              \/ target_dir \in {"unknown", "unchanged"}
              \/ threshold_gain <= 0
              \/ target_conf < c.min_confidence
              \/ target_effect_size < c.min_effect_size
              \/ Dropped(next_tick, c.max_tick)
      path == Append(c.dominant.path, target_id)
      steps == Append(c.dominant.steps,
                 _generate_step_description(c.curr, target_id, source_dir_for_path, target_dir,
                                            edge.rel, edge.at))
      influence == [direction |-> target_dir, confidence |-> target_conf,
                    effect_size |-> target_effect_size, priority |-> edge.priority,
                    path |-> path, steps |-> steps]
      enqueue == edge.at_tick = 0 /\ target_id \notin st.queued_nodes
  IN IF skip THEN st
     ELSE [influence_buffer |-> [st.influence_buffer EXCEPT ![target_id][next_tick] =
                                   Append(@, influence)],
           traces |-> _upsert_trace(st.traces, target_id, path, steps, target_conf),
           nodes_to_resolve |-> IF enqueue THEN SortAsc(Append(st.nodes_to_resolve, target_id))
                                ELSE st.nodes_to_resolve,
           queued_nodes |-> IF enqueue THEN st.queued_nodes \cup {target_id}
                            ELSE st.queued_nodes,
           deliveries |-> Append(st.deliveries,
                            [edge |-> edge, tick |-> next_tick, influence |-> influence])]

RECURSIVE FanOut(_, _, _)
FanOut(st, outgoing_edges, c) ==
  IF outgoing_edges = <<>> THEN st
  ELSE CHOOSE out \in {FanOut(st1, Tail(outgoing_edges), c1) :
                         st1 \in {FanOutEdge(st, Head(outgoing_edges), c)}, c1 \in {c}} : TRUE

(* the values of the buffers after the iteration that pops curr_node_id, and what it did.
   CHOOSE v \in {e : x \in {d}} : TRUE is e with x bound to the value of d, as the code
   binds a local variable once *)
LoopBody(curr_node_id) ==
  LET bucket == influence_buffer[curr_node_id][tick]
      same == [influence_buffer |-> influence_buffer,
               traces |-> traces,
               nodes_to_resolve |-> PopFront(nodes_to_resolve),
               queued_nodes |-> queued_nodes \ {curr_node_id},
               deliveries |-> <<>>,
               node_states |-> node_states,
               state_order |-> state_order,
               node_activity |-> node_activity,
               propagated_directions |-> propagated_directions,
               outcome |-> "empty"]
  IN IF bucket = <<>> THEN same
     ELSE CHOOSE after \in {
       (LET resolved == res.resolved[1]
        IN IF res.resolved = <<>> THEN [same EXCEPT !.outcome = "no_resolution"]
           ELSE IF resolved.effect_size < request.options.min_effect_size
                THEN [same EXCEPT !.outcome = "below_min_effect"]
           ELSE IF IsStable(node_states[curr_node_id], tick, resolved)
                THEN [same EXCEPT !.outcome = "stable"]
           ELSE
             LET states1 == [node_states EXCEPT ![curr_node_id] = DictSet(@, tick, resolved)]
                 order1 == IF node_states[curr_node_id] = <<>> /\
                              \A i \in 1..Len(state_order) : state_order[i] # curr_node_id
                           THEN Append(state_order, curr_node_id) ELSE state_order
                 activity1 == [node_activity EXCEPT ![curr_node_id] =
                                 DictSet(@, tick, IF resolved.direction = "up"
                                                  THEN resolved.effect_size
                                                  ELSE 0 - resolved.effect_size)]
                 can_propagate == CanPropagate(res.dominant_hops, request.options.max_hops,
                                               resolved.direction,
                                               propagated_directions[curr_node_id][tick])
                 outgoing == Outgoing(adj, curr_node_id)
             IN CHOOSE after1 \in {
               (LET written == [same EXCEPT !.node_states = states1, !.state_order = order1,
                                            !.node_activity = activity1, !.traces = traces1,
                                            !.outcome = "written"]
                IN IF ~can_propagate THEN written
                   ELSE
                     LET c == [curr |-> curr_node_id, tick |-> tick, node |-> nodes[curr_node_id],
                               activity |-> activity1[curr_node_id], resolved |-> resolved,
                               dominant |-> bucket[res.dominant], context |-> request.context,
                               min_confidence |-> request.options.min_confidence,
                               min_effect_size |-> request.options.min_effect_size,
                               max_tick |-> max_tick]
                     IN CHOOSE after2 \in {
                          [written EXCEPT
                             !.influence_buffer = st.influence_buffer,
                             !.traces = st.traces,
                             !.nodes_to_resolve = st.nodes_to_resolve,
                             !.queued_nodes = st.queued_nodes,
                             !.deliveries = st.deliveries,
                             !.propagated_directions =
                                [propagated_directions EXCEPT ![curr_node_id][tick] =
                                   @ \cup {resolved.direction}],
                             !.outcome = "fan_out"] :
                          st \in {FanOut([influence_buffer |-> influence_buffer,
                                          traces |-> traces1,
                                          nodes_to_resolve |-> PopFront(nodes_to_resolve),
                                          queued_nodes |-> queued_nodes \ {curr_node_id},
                                          deliveries |-> <<>>],
                                         outgoing, c)}} : TRUE) :
               traces1 \in {EmitAllBranches(traces, curr_node_id, res.trace_only_branches,
                                            outgoing, request.context,
                                            request.options.min_confidence)}} : TRUE) :
       res \in {_resolve_influence(bucket, curr_node_id, tick)}} : TRUE

ResolveStep ==
  /\ pc = "loop"
  /\ nodes_to_resolve # <<>>
  /\ \E after \in {LoopBody(Head(nodes_to_resolve))} :
     LET curr_node_id == Head(nodes_to_resolve)
     IN /\ influence_buffer' = after.influence_buffer
        /\ traces' = after.traces
        /\ nodes_to_resolve' = after.nodes_to_resolve
        /\ queued_nodes' = after.queued_nodes
        /\ node_states' = after.node_states
        /\ state_order' = after.state_order
        /\ node_activity' = after.node_activity
        /\ propagated_directions' = after.propagated_directions
        /\ last' = [node |-> curr_node_id, tick |-> tick, outcome |-> after.outcome,
                    deliveries |-> after.deliveries]
  /\ UNCHANGED <<engine_vars, latest_node_states, request, pc, max_tick, tick, response, hist>>

(* line 77: the for loop moves to the next tick when the ready list is empty *)
EndTick ==
  /\ pc = "loop"
  /\ nodes_to_resolve = <<>>
  /\ tick < max_tick
  /\ tick' = tick + 1
  /\ pc' = "tick"
  /\ UNCHANGED <<engine_vars, latest_node_states, request, max_tick, influence_buffer,
                 node_states, state_order, node_activity, traces, propagated_directions,
                 nodes_to_resolve, queued_nodes, response, last, hist>>

(***************************************************************************)
(* simulate, lines 194-216: the response                                   *)
(***************************************************************************)
SortedTicks(tick_states) ==
  LET ks == DOMAIN tick_states
  IN [p \in 1..Cardinality(ks) |-> CHOOSE t \in ks : Cardinality({u \in ks : u < t}) = p - 1]

MinTick(tick_states) == CHOOSE t \in DOMAIN tick_states : \A u \in DOMAIN tick_states : t <= u

LatestTick(tick_states) == CHOOSE t \in DOMAIN tick_states : \A u \in DOMAIN tick_states : u <= t

BestTick(tick_states) == MinTick(tick_states)

Timeline(tick_states) ==
  LET ts == SortedTicks(tick_states) IN [i \in 1..Len(ts) |-> tick_states[ts[i]]]

BuildResponseOf(states, order, trace_store, mt) ==
  LET present == SelectSeq(order, LAMBDA n : states[n] # <<>>)
  IN [affected_nodes |-> [i \in 1..Len(present) |-> states[present[i]][BestTick(states[present[i]])]],
      traces |-> trace_store,
      timelines |-> [n \in {present[i] : i \in 1..Len(present)} |-> Timeline(states[n])],
      max_ticks |-> mt]

BuildResponse ==
  /\ pc = "loop"
  /\ nodes_to_resolve = <<>>
  /\ tick >= max_tick
  /\ pc' = "done"
  /\ response' = BuildResponseOf(node_states, state_order, traces, max_tick)
  /\ latest_node_states' = node_states
  /\ UNCHANGED <<engine_vars, request, max_tick, tick, influence_buffer, node_states,
                 state_order, node_activity, traces, propagated_directions, nodes_to_resolve,
                 queued_nodes, last, hist>>

Next == Construct \/ Call \/ Seed \/ BeginTick \/ ResolveStep \/ EndTick \/ BuildResponse

Spec == Init /\ [][Next]_vars

(***************************************************************************)
(* Vocabulary of the properties                                            *)
(***************************************************************************)
Flip(direction) == IF direction = "up" THEN "down" ELSE "up"

(* what a step description says: the source direction, the target direction and whether
   the phase was a `decreases` phase *)
StepSourceDir(step) ==
  IF step.source_state = "Increased" THEN "up"
  ELSE IF step.source_state = "Reduced" THEN "down" ELSE step.source_state

StepTargetDir(step) ==
  IF step.target_state = "Increased" THEN "up"
  ELSE IF step.target_state = "Decreased" THEN "down" ELSE step.target_state

StepIsDecreases(step) == step.verb \in {"inhibits", "disinhibits"}

FlippedPerDecreases(seed_direction, steps) ==
  IF Cardinality({i \in 1..Len(steps) : StepIsDecreases(steps[i])}) % 2 = 0
  THEN seed_direction ELSE Flip(seed_direction)

Elements(seq) == {seq[i] : i \in 1..Len(seq)}

AllInfluences == UNION {Elements(influence_buffer[n][t]) : <<n, t>> \in NodeIds \X Ticks}

AllTraces == UNION {Elements(traces[n]) : n \in NodeIds}

KnownPerturbations ==
  {request.perturbations[i] : i \in {j \in 1..Len(request.perturbations) :
                                       request.perturbations[j].node_id \in DOMAIN nodes}}

PerturbedNodes == {p.node_id : p \in KnownPerturbations}

(* the direction the last step of a path delivers follows from the seed of the path *)
PathSignLaw(path, steps, delivered_direction) ==
  /\ Len(steps) = Len(path) - 1
  /\ \A i \in 1..Len(steps) :
       StepTargetDir(steps[i]) = (IF StepIsDecreases(steps[i])
                                  THEN Flip(StepSourceDir(steps[i]))
                                  ELSE StepSourceDir(steps[i]))
  /\ \A i \in 1..(Len(steps) - 1) : StepSourceDir(steps[i + 1]) = StepTargetDir(steps[i])
  /\ steps # <<>> =>
       /\ \E p \in KnownPerturbations :
            p.node_id = path[1] /\ SeedDirection(p.op) = StepSourceDir(steps[1])
       /\ delivered_direction = FlippedPerDecreases(StepSourceDir(steps[1]), steps)

(* C1: sign law.  Every influence the last fan-out delivered has the direction of the
   resolved source state when the compiled phase is a positive relation and the opposite
   direction when it is `decreases`; and for every buffered influence and every stored
   trace the direction delivered to the last node of the path is the seed direction
   flipped once per `decreases` phase on the path. *)
C1_SignLaw ==
  /\ last.outcome = "fan_out" =>
       \A k \in 1..Len(last.deliveries) :
         LET d == last.deliveries[k]
             source_direction == node_states[last.node][last.tick].direction
         IN /\ d.edge.rel \in POSITIVE_RELATIONS => d.influence.direction = source_direction
            /\ d.edge.rel = "decreases" => d.influence.direction = Flip(source_direction)
  /\ \A inf \in AllInfluences : PathSignLaw(inf.path, inf.steps, inf.direction)
  /\ \A tr \in AllTraces :
       PathSignLaw(tr.path, tr.steps, StepTargetDir(tr.steps[Len(tr.steps)]))

(* a trace over three phases, two of them `decreases` (they cancel) and one positive,
   and a fan-out that has just delivered over a `decreases` phase *)
C1_Witness ==
  /\ \E tr \in AllTraces :
       /\ Len(tr.steps) = 3
       /\ Cardinality({i \in 1..3 : StepIsDecreases(tr.steps[i])}) = 2
       /\ StepTargetDir(tr.steps[3]) = StepSourceDir(tr.steps[1])
  /\ last.outcome = "fan_out"
  /\ \E k \in 1..Len(last.deliveries) : last.deliveries[k].edge.rel = "decreases"

(* nodes within h compiled edges of the set S *)
RECURSIVE ReachWithin(_, _)
ReachWithin(S, h) ==
  IF h <= 0 THEN S
  ELSE LET next == S \cup {compiled_edges[k].target :
                             k \in {j \in 1..Len(compiled_edges) : compiled_edges[j].source \in S}}
       IN IF next = S THEN S ELSE ReachWithin(next, h - 1)

ResolvedNodes == {n \in NodeIds : node_states[n] # <<>>}

AffectedIds(resp) == {resp.affected_nodes[i].node_id : i \in 1..Len(resp.affected_nodes)}

(* C2: max_hops caps the depth.  Every buffered influence has a path of at most
   max_hops edges; only nodes within max_hops compiled edges of a perturbed node have a
   resolved state or appear in affected_nodes; with max_hops = 0 these are perturbed
   nodes only. *)
C2_MaxHops ==
  /\ pc \in {"tick", "loop", "done"} =>
       /\ \A inf \in AllInfluences : Len(inf.path) - 1 <= request.options.max_hops
       /\ ResolvedNodes \subseteq ReachWithin(PerturbedNodes, request.options.max_hops)
       /\ request.options.max_hops = 0 => ResolvedNodes \subseteq PerturbedNodes
  /\ pc = "done" =>
       /\ AffectedIds(response) \subseteq ReachWithin(PerturbedNodes, request.options.max_hops)
       /\ request.options.max_hops = 0 => AffectedIds(response) \subseteq PerturbedNodes

(* a finished simulation in which a node at exactly max_hops >= 1 edges is affected and a
   node that is reachable only through more edges is not *)
C2_Witness ==
  /\ pc = "done"
  /\ request.options.max_hops >= 1
  /\ \E n \in AffectedIds(response) :
       n \notin ReachWithin(PerturbedNodes, request.options.max_hops - 1)
  /\ \E n \in ReachWithin(PerturbedNodes, 4) :
       /\ n \notin ReachWithin(PerturbedNodes, request.options.max_hops)
       /\ n \notin AffectedIds(response)

(***************************************************************************)
(* Graphs with immediate cycles and self-loops, run to completion          *)
(***************************************************************************)
(* phases that all compile to at_tick = 0: the cycle 2 -> 3 -> 2, the self-loop 2 -> 2 and
   an entry 1 -> 2 into the cycle *)
CycleCatalogue ==
  << Edge(1, 2, "increases"),
     Edge(2, 3, "decreases"),
     [Edge(3, 2, "decreases") EXCEPT !.priority = "high", !.weight = 500],
     [Edge(2, 2, "decreases") EXCEPT !.weight = 500] >>

CyclePerturbations ==
  << [node_id |-> 1, op |-> "increase"], [node_id |-> 2, op |-> "block"] >>

CycleGraphs == SubLists(CycleCatalogue, MaxEdges)

CycleRequests ==
  {[perturbations |-> p, context |-> <<>>,
    options |-> [SimulationOptions EXCEPT !.max_hops = h]] :
     p \in SubLists(CyclePerturbations, MaxPerturbations), h \in 0..MaxHops}

ConstructCycle == ConstructWith(CycleGraphs)

CallCycle == CallWith(CycleRequests)

NextCycle ==
  ConstructCycle \/ CallCycle \/ Seed \/ BeginTick \/ ResolveStep \/ EndTick \/ BuildResponse

(* simulate runs to its return statement without being suspended: there are no awaits
   and no blocking calls inside the engine *)
FairSpec == Init /\ [][NextCycle]_vars /\ WF_vars(NextCycle)

(* C3: termination.  Whatever the graph and the request, the ready list of every tick
   eventually empties and simulate returns, with the tick loop at max_tick. *)
C3_Terminates ==
  /\ (pc = "loop") ~> (nodes_to_resolve = <<>>)
  /\ <>(pc = "done" /\ tick = max_tick)

HasImmediateRevisit(path) ==
  \E i, j \in 1..Len(path) : i + 1 < j /\ path[i] = path[j]

HasSelfLoopStep(path) == \E i \in 1..(Len(path) - 1) : path[i] = path[i + 1]

(* a simulation that returned after walking round an immediate cycle and through a
   self-loop within tick 0 *)
C3_Witness ==
  /\ pc = "done"
  /\ \E n \in NodeIds : \E inf \in Elements(influence_buffer[n][0]) : HasImmediateRevisit(inf.path)
  /\ \E n \in NodeIds : \E inf \in Elements(influence_buffer[n][0]) : HasSelfLoopStep(inf.path)

(***************************************************************************)
(* Several simulations on one engine                                       *)
(***************************************************************************)
MaxRuns == 3

(* the diamond 1 -> 2 -> 3 with the shortcut 1 -> 3 *)
RunCatalogue ==
  << Edge(1, 2, "increases"), Edge(2, 3, "decreases"), Edge(1, 3, "enables") >>

RunGraphs == SubLists(RunCatalogue, MaxEdges)

RunPerturbationLists ==
  { << [node_id |-> 1, op |-> "increase"] >>,
    << [node_id |-> 1, op |-> "increase"], [node_id |-> 2, op |-> "block"] >> }

RunRequests ==
  {[perturbations |-> p, context |-> <<>>,
    options |-> [SimulationOptions EXCEPT !.max_hops = h]] :
     p \in RunPerturbationLists, h \in 0..MaxHops}

ConstructRuns == ConstructWith(RunGraphs)

CallRuns == Len(hist) < MaxRuns /\ CallWith(RunRequests)

(* line 216: simulate returns its response to the caller, who keeps it; the locals of
   the call are gone *)
Return ==
  /\ pc = "done"
  /\ Len(hist) < MaxRuns
  /\ hist' = Append(hist, [request |-> request, response |-> response])
  /\ pc' = "idle"
  /\ request' = NoRequest
  /\ response' = NoResponse
  /\ last' = NoLast
  /\ max_tick' = 0
  /\ tick' = 0
  /\ influence_buffer' = EmptyBuffer
  /\ node_states' = EmptyDicts
  /\ state_order' = <<>>
  /\ node_activity' = EmptyDicts
  /\ traces' = [n \in NodeIds |-> <<>>]
  /\ propagated_directions' = [n \in NodeIds |-> [t \in Ticks |-> {}]]
  /\ nodes_to_resolve' = <<>>
  /\ queued_nodes' = {}
  /\ UNCHANGED <<engine_vars, latest_node_states>>

NextRuns ==
  ConstructRuns \/ CallRuns \/ Seed \/ BeginTick \/ ResolveStep \/ EndTick \/ BuildResponse
    \/ Return

SpecRuns == Init /\ [][NextRuns]_vars

(* two requests that differ at most in options.max_hops *)
SameButMaxHops(r1, r2) ==
  /\ r1.perturbations = r2.perturbations
  /\ r1.context = r2.context
  /\ [r1.options EXCEPT !.max_hops = 0] = [r2.options EXCEPT !.max_hops = 0]

(* C4: monotonicity in max_hops.  Of two simulations on the same graph whose requests
   differ only in max_hops, the one with the smaller max_hops affects a subset of the
   nodes the other affects. *)
C4_Monotone ==
  \A i, j \in 1..Len(hist) :
    (SameButMaxHops(hist[i].request, hist[j].request)
       /\ hist[i].request.options.max_hops <= hist[j].request.options.max_hops)
    => AffectedIds(hist[i].response) \subseteq AffectedIds(hist[j].response)

(* C4 as it holds: a simulation with max_hops = 0 affects a subset of the nodes that a
   simulation of the same graph and otherwise equal request affects with any larger
   max_hops. *)
C4_MonotoneFromZero ==
  \A i, j \in 1..Len(hist) :
    (SameButMaxHops(hist[i].request, hist[j].request)
       /\ hist[i].request.options.max_hops = 0)
    => AffectedIds(hist[i].response) \subseteq AffectedIds(hist[j].response)

(* two perturbed nodes affected with max_hops = 0, and a third one more with max_hops = 2 *)
C4_Witness ==
  \E i, j \in 1..Len(hist) :
    /\ SameButMaxHops(hist[i].request, hist[j].request)
    /\ hist[i].request.options.max_hops = 0
    /\ hist[j].request.options.max_hops = 2
    /\ Cardinality(AffectedIds(hist[i].response)) = 2
    /\ AffectedIds(hist[i].response) \subseteq AffectedIds(hist[j].response)
    /\ AffectedIds(hist[i].response) # AffectedIds(hist[j].response)

(* C5: simulate is a pure function of the graph and the request.  No step after
   construction changes nodes, edges, compiled_edges, adj or rev_adj, and two calls with
   equal requests on one engine return equal responses, affected_nodes, timelines and
   traces in the same order, whatever was simulated in between. *)
C5_Pure ==
  /\ [](\A i, j \in 1..Len(hist) :
          hist[i].request = hist[j].request => hist[i].response = hist[j].response)
  /\ [](pc = "done" =>
          \A i \in 1..Len(hist) : hist[i].request = request => hist[i].response = response)
  /\ [][pc # "new" => engine_vars' = engine_vars]_vars

(* a request simulated, another one simulated after it, and the first one simulated again
   with the same answer: three affected nodes in order and a ranked list of two traces *)
C5_Witness ==
  /\ Len(hist) = 3
  /\ hist[1].request = hist[3].request
  /\ hist[2].request # hist[1].request
  /\ hist[2].response # hist[1].response
  /\ hist[3].response = hist[1].response
  /\ Len(hist[1].response.affected_nodes) = 3
  /\ \E n \in NodeIds : Len(hist[1].response.traces[n]) = 2

(***************************************************************************)
(* Time                                                                    *)
(***************************************************************************)
(* the tick index of a time window *)
TickOfWindow(time_window) ==
  CASE time_window = "immediate" -> 0
    [] time_window = "minutes" -> 1
    [] time_window = "hours" -> 2
    [] time_window \in {"days", "all"} -> 3

TimescaleOfTick(t) ==
  CASE t = 0 -> "immediate" [] t = 1 -> "minutes" [] t = 2 -> "hours" [] t = 3 -> "days"

Running == pc \in {"tick", "loop", "done"}

(* C6: time-window bound.  max_tick is the tick of the time window (3 for all); every
   buffered influence, every delivery, every resolved state and every timeline entry has
   a tick in 0..max_tick; a fan-out delivers nothing over a phase whose at_tick would
   carry it past max_tick; the response reports max_tick, and every affected node has
   the timescale of its tick. *)
C6_TimeWindow ==
  /\ Running =>
       /\ max_tick = TickOfWindow(request.options.time_window)
       /\ tick \in 0..max_tick
       /\ \A n \in NodeIds : \A t \in Ticks : influence_buffer[n][t] # <<>> => t <= max_tick
       /\ \A n \in NodeIds : \A t \in DOMAIN node_states[n] :
            /\ t \in 0..max_tick
            /\ node_states[n][t].tick = t
            /\ node_states[n][t].timescale = TimescaleOfTick(t)
       /\ \A k \in 1..Len(last.deliveries) :
            /\ last.deliveries[k].tick = last.tick + last.deliveries[k].edge.at_tick
            /\ last.deliveries[k].tick \in 0..max_tick
       /\ \A k \in 1..Len(Outgoing(adj, last.node)) :
            last.tick + Outgoing(adj, last.node)[k].at_tick > max_tick
              => \A d \in Elements(last.deliveries) : d.edge # Outgoing(adj, last.node)[k]
  /\ pc = "done" =>
       /\ response.max_ticks = max_tick
       /\ \A a \in Elements(response.affected_nodes) :
            a.tick \in 0..max_tick /\ a.timescale = TimescaleOfTick(a.tick)
       /\ \A n \in DOMAIN response.timelines : \A a \in Elements(response.timelines[n]) :
            a.tick \in 0..max_tick /\ a.timescale = TimescaleOfTick(a.tick)

(* with the window at minutes, a fan-out that delivered over an immediate phase and
   delivered nothing over the hours phase of the same node *)
C6_Witness ==
  /\ pc = "loop"
  /\ request.options.time_window = "minutes"
  /\ max_tick = 1
  /\ last.outcome = "fan_out"
  /\ last.deliveries # <<>>
  /\ \E k \in 1..Len(Outgoing(adj, last.node)) :
       last.tick + Outgoing(adj, last.node)[k].at_tick > max_tick

(* the (node, tick) pairs that chains of context-matching compiled phases reach from S,
   each phase adding its at_tick *)
RECURSIVE Arrivals(_)
Arrivals(S) ==
  LET next == S \cup {<<compiled_edges[k].target, nt[2] + compiled_edges[k].at_tick>> :
                        <<k, nt>> \in {<<j, x>> \in (1..Len(compiled_edges)) \X S :
                                         /\ compiled_edges[j].source = x[1]
                                         /\ _context_matches(compiled_edges[j], request.context)
                                         /\ x[2] + compiled_edges[j].at_tick <= 3}}
  IN IF next = S THEN S ELSE Arrivals(next)

Incoming(n) == SelectSeq(compiled_edges, LAMBDA e : e.target = n)

(* n is not perturbed and its only incoming phase is an hours phase from a perturbed node *)
OnlyHoursFromPerturbed(n) ==
  /\ n \notin PerturbedNodes
  /\ Len(Incoming(n)) = 1
  /\ Incoming(n)[1].at = "hours"
  /\ Incoming(n)[1].source \in PerturbedNodes

(* that phase has weight 1, no threshold and no gating, its context matches, its source
   has resolved its perturbation, and the request lets one hop and the hours tick through *)
HoursPhaseGetsThrough(n) ==
  /\ Incoming(n)[1].weight = One
  /\ Incoming(n)[1].activation_threshold = None
  /\ Incoming(n)[1].activation_direction = "any"
  /\ _context_matches(Incoming(n)[1], request.context)
  /\ 0 \in DOMAIN node_states[Incoming(n)[1].source]
  /\ request.options.max_hops >= 1
  /\ max_tick >= 2

(* C7: delayed phases never act early.  A node has a state at tick t only if a chain of
   context-matching compiled phases from a perturbed node (the empty chain for the
   perturbed node itself) has at_tick values that sum to t.  A node that is not perturbed
   and whose only incoming phase is an hours phase from a perturbed node has no tick-0
   state, and has a tick-2 state with timescale hours when that phase has weight 1 and
   default thresholds and the request lets it through. *)
C7_NeverEarly ==
  /\ Running =>
       \A n \in NodeIds : \A t \in DOMAIN node_states[n] :
         <<n, t>> \in Arrivals({<<p, 0>> : p \in PerturbedNodes})
  /\ Running =>
       \A n \in NodeIds : OnlyHoursFromPerturbed(n) => 0 \notin DOMAIN node_states[n]
  /\ pc = "done" =>
       \A n \in NodeIds :
         (OnlyHoursFromPerturbed(n) /\ HoursPhaseGetsThrough(n))
           => /\ 2 \in DOMAIN node_states[n]
              /\ node_states[n][2].timescale = "hours"

(* node 1 perturbed, node 4 fed only by the hours phase 1 -> 4: node 4 has one state, at
   tick 2 *)
C7_Witness ==
  /\ pc = "done"
  /\ \E n \in NodeIds :
       /\ OnlyHoursFromPerturbed(n)
       /\ HoursPhaseGetsThrough(n)
       /\ DOMAIN node_states[n] = {2}
       /\ \E a \in Elements(response.affected_nodes) :
            a.node_id = n /\ a.tick = 2 /\ a.timescale = "hours"

(***************************************************************************)
(* The response                                                            *)
(***************************************************************************)
EntriesOf(resp, n) ==
  {i \in 1..Len(resp.affected_nodes) : resp.affected_nodes[i].node_id = n}

(* C8: assembly.  affected_nodes has exactly one entry for every node with a resolved
   tick and none for the others; the entry is the node's state at its earliest resolved
   tick; timelines[node] holds all the resolved states of the node in strictly ascending
   tick order, and its first element is the affected_nodes entry. *)
C8_Assembly ==
  pc = "done" =>
    /\ \A n \in NodeIds :
         Cardinality(EntriesOf(response, n)) = (IF node_states[n] # <<>> THEN 1 ELSE 0)
    /\ \A i \in 1..Len(response.affected_nodes) :
         LET a == response.affected_nodes[i]
             tick_states == node_states[a.node_id]
         IN /\ a.node_id \in NodeIds
            /\ a.tick \in DOMAIN tick_states
            /\ \A t \in DOMAIN tick_states : a.tick <= t
            /\ a = tick_states[a.tick]
            /\ response.timelines[a.node_id][1] = a
    /\ DOMAIN response.timelines = ResolvedNodes
    /\ \A n \in DOMAIN response.timelines :
         LET timeline == response.timelines[n]
         IN /\ Len(timeline) = Cardinality(DOMAIN node_states[n])
            /\ \A k \in 1..Len(timeline) :
                 timeline[k].tick \in DOMAIN node_states[n]
                   /\ timeline[k] = node_states[n][timeline[k].tick]
            /\ \A k \in 1..(Len(timeline) - 1) : timeline[k].tick < timeline[k + 1].tick

(* the two-phase edge 1 -> 2: up at once, then a weaker down at the hours tick; the entry
   of node 2 in affected_nodes is the earlier up *)
C8_Witness ==
  /\ pc = "done"
  /\ \E n \in NodeIds :
       /\ DOMAIN node_states[n] = {0, 2}
       /\ node_states[n][0].direction = "up"
       /\ node_states[n][2].direction = "down"
       /\ node_states[n][2].effect_size < node_states[n][0].effect_size
       /\ \E i \in EntriesOf(response, n) :
            response.affected_nodes[i].direction = "up" /\ response.affected_nodes[i].tick = 0
       /\ Len(response.timelines[n]) = 2

(***************************************************************************)
(* The resolver on the buckets a simulation builds                         *)
(***************************************************************************)
Rank(priority) ==
  CASE priority = "low" -> 1 [] priority = "medium" -> 2 [] priority = "high" -> 3
    [] priority = "ultra" -> 10

MaxRank(bucket) ==
  CHOOSE r \in {Rank(bucket[i].priority) : i \in 1..Len(bucket)} :
    \A i \in 1..Len(bucket) : Rank(bucket[i].priority) <= r

IsTop(bucket, i) == Rank(bucket[i].priority) = MaxRank(bucket)

TopOnly(bucket) == SubList(bucket, {i \in 1..Len(bucket) : IsTop(bucket, i)})

(* direction, effect_size and confidence of a result; <<>> for no resolution *)
Core(res) ==
  IF res.resolved = <<>> THEN <<>>
  ELSE <<res.resolved[1].direction, res.resolved[1].effect_size, res.resolved[1].confidence>>

(* the core of what the resolver returns for a bucket *)
CoreOf(bucket, node_id, t) ==
  CHOOSE core \in {Core(res) : res \in {_resolve_influence(bucket, node_id, t)}} : TRUE

(* influences of the lowest rank, weak and as strong as can be, in both directions *)
Probes(node_id) ==
  {[direction |-> d, confidence |-> One, effect_size |-> e, priority |-> "low",
    path |-> <<node_id>>, steps |-> <<>>] : d \in {"up", "down"}, e \in {0, One}}

(* the bucket with one influence of lower rank removed, changed or added *)
LowerVariants(bucket, node_id) ==
  LET lower == {i \in 1..Len(bucket) : ~IsTop(bucket, i)}
      probes == IF MaxRank(bucket) > Rank("low") THEN Probes(node_id) ELSE {}
  IN {TopOnly(bucket)}
       \cup {SubList(bucket, (1..Len(bucket)) \ {i}) : i \in lower}
       \cup {[bucket EXCEPT ![i] = [p EXCEPT !.priority = bucket[i].priority]] :
               i \in lower, p \in probes}
       \cup {Append(bucket, p) : p \in probes}
       \cup {<<p>> \o bucket : p \in probes}

LastBucket == influence_buffer[last.node][last.tick]

(* C9: priority tiers.  For the bucket of the node the loop has just resolved, the
   direction, effect_size and confidence the resolver returns are those it returns for
   the influences of the highest rank present alone, and they stay the same when an
   influence of lower rank is removed, changed or added, whatever its effect_size. *)
C9_PriorityTiers ==
  (pc = "loop" /\ last.outcome \notin {"start", "empty"}) =>
    \A core \in {CoreOf(LastBucket, last.node, last.tick)} :
      \A variant \in LowerVariants(LastBucket, last.node) :
        CoreOf(variant, last.node, last.tick) = core

(* a node just resolved against an influence of lower rank that points the other way and
   is stronger than everything in the top tier *)
C9_Witness ==
  /\ pc = "loop"
  /\ last.outcome \in {"written", "fan_out"}
  /\ \E i \in 1..Len(LastBucket) :
       /\ ~IsTop(LastBucket, i)
       /\ LastBucket[i].direction # node_states[last.node][last.tick].direction
       /\ LastBucket[i].effect_size > SumField(TopOnly(LastBucket), "effect_size")

(* the summed effect_size of the top tier of a bucket in one direction *)
TopScore(bucket, direction) ==
  SumField(SelectSeq(TopOnly(bucket), LAMBDA inf : inf.direction = direction), "effect_size")

TopTierBalanced(bucket) ==
  bucket # <<>> /\ TopScore(bucket, "up") = TopScore(bucket, "down")

(* the loop is about to pop a node whose bucket at this tick is balanced *)
AboutToResolveBalanced ==
  /\ pc = "loop"
  /\ nodes_to_resolve # <<>>
  /\ TopTierBalanced(influence_buffer[Head(nodes_to_resolve)][tick])

(* C10: balanced opposition.  For a bucket whose top tier sums to the same effect_size up
   and down (both may be zero) the resolver returns no resolution, and the loop iteration
   that resolves it writes no state, emits no trace, delivers no influence, records no
   propagated direction and enqueues nothing. *)
C10_Balanced ==
  /\ [](\A n \in NodeIds : \A t \in Ticks :
          TopTierBalanced(influence_buffer[n][t])
            => _resolve_influence(influence_buffer[n][t], n, t) = NoResolution)
  /\ [][AboutToResolveBalanced =>
          /\ last'.outcome = "no_resolution"
          /\ last'.deliveries = <<>>
          /\ node_states' = node_states
          /\ state_order' = state_order
          /\ node_activity' = node_activity
          /\ traces' = traces
          /\ influence_buffer' = influence_buffer
          /\ propagated_directions' = propagated_directions
          /\ nodes_to_resolve' = Tail(nodes_to_resolve)]_vars

(* a node whose top tier holds an up and a down influence of the same positive size has
   just been resolved to nothing, and has no state *)
C10_Witness ==
  /\ pc = "loop"
  /\ last.outcome = "no_resolution"
  /\ TopScore(LastBucket, "up") > 0
  /\ TopScore(LastBucket, "up") = TopScore(LastBucket, "down")
  /\ node_states[last.node] = <<>>

(***************************************************************************)
(* Ranges                                                                  *)
(***************************************************************************)
InUnit(x) == 0 <= x /\ x <= One

AllStates == UNION {{node_states[n][t] : t \in DOMAIN node_states[n]} : n \in NodeIds}

(* C11: range invariant.  Every buffered influence and every resolved state has its
   confidence and its effect_size in [0, 1], every stored trace has its confidence in
   [0, 1], and a resolved state has a confidence of at least 0.1, also when influences of
   one direction sum to more than 1. *)
C11_Ranges ==
  /\ \A inf \in AllInfluences : InUnit(inf.confidence) /\ InUnit(inf.effect_size)
  /\ \A st \in AllStates :
       InUnit(st.confidence) /\ InUnit(st.effect_size) /\ st.confidence >= 100
  /\ \A tr \in AllTraces : InUnit(tr.confidence)
  /\ pc = "done" =>
       \A a \in Elements(response.affected_nodes) :
         InUnit(a.confidence) /\ InUnit(a.effect_size) /\ a.confidence >= 100

(* a node just resolved from influences of one direction that sum to more than 1: its
   effect_size is 1 *)
C11_Witness ==
  /\ pc = "loop"
  /\ last.outcome \in {"written", "fan_out"}
  /\ TopScore(LastBucket, node_states[last.node][last.tick].direction) > One
  /\ node_states[last.node][last.tick].effect_size = One

(***************************************************************************)
(* The trace store under arbitrary sequences of _upsert_trace calls        *)
(***************************************************************************)
MaxTracePaths == 11

(* a path of k nodes that ends in its target *)
TracePath(k, target_id) == [i \in 1..k |-> IF i = k THEN target_id ELSE 3 + (i % 2)]

(* the calls, all for node 1: one path of every length from 2 to MaxTracePaths at one
   confidence, and a second path of length 2 at that confidence or a greater one *)
UpsertInputs ==
  {[target_id |-> 1, path |-> TracePath(k, 1), confidence |-> 500] : k \in 2..MaxTracePaths}
  \cup {[target_id |-> 1, path |-> <<2, 1>>, confidence |-> c] : c \in {500, 700}}

(* the branch of _upsert_trace a call takes *)
UpsertOutcome(store, inp) ==
  LET old == store[inp.target_id]
      hits == {i \in 1..Len(old) : old[i].path = inp.path}
  IN IF old = <<>> THEN "first"
     ELSE IF hits = {} THEN (IF Len(old) >= 10 THEN "appended_truncated" ELSE "appended")
     ELSE IF \E i \in hits : inp.confidence > old[i].confidence THEN "replaced"
     ELSE "kept"

UpsertCall ==
  /\ pc \in {"new", "upsert"}
  /\ \E inp \in UpsertInputs :
       /\ traces' = _upsert_trace(traces, inp.target_id, inp.path, <<>>, inp.confidence)
       /\ last' = [NoLast EXCEPT !.outcome = UpsertOutcome(traces, inp)]
  /\ pc' = "upsert"
  /\ UNCHANGED <<nodes, edges, compiled_edges, adj, rev_adj, latest_node_states, request,
                 max_tick, tick, influence_buffer, node_states, state_order, node_activity,
                 propagated_directions, nodes_to_resolve, queued_nodes, response, hist>>

NextTrace == UpsertCall

TraceSpec == Init /\ [][NextTrace]_vars

TraceListOk(list) ==
  /\ Len(list) <= 10
  /\ \A i \in 1..Len(list) : \A j \in (i + 1)..Len(list) :
       /\ ~KeyGT(<<list[j].confidence, Len(list[j].path)>>,
                 <<list[i].confidence, Len(list[i].path)>>)
       /\ list[i].path # list[j].path

(* C12: trace store.  After any sequence of _upsert_trace calls every traces[target] has
   at most 10 entries, is sorted descending by (confidence, len(path)) and holds no path
   twice; a call for a path already stored replaces the entry when the new confidence is
   strictly greater and otherwise leaves the list as it is. *)
C12_TraceStore ==
  /\ \A n \in NodeIds : TraceListOk(traces[n])
  /\ \A inp \in UpsertInputs :
       \A old \in {traces[inp.target_id]} :
         \A i \in {j \in 1..Len(old) : old[j].path = inp.path} :
           \A out \in {_upsert_trace(traces, inp.target_id, inp.path, <<>>, inp.confidence)} :
             IF inp.confidence > old[i].confidence
             THEN /\ Len(out[inp.target_id]) = Len(old)
                  /\ \E k \in 1..Len(old) :
                       /\ out[inp.target_id][k].path = inp.path
                       /\ out[inp.target_id][k].confidence = inp.confidence
                  /\ \A m \in NodeIds \ {inp.target_id} : out[m] = traces[m]
             ELSE out = traces

(* a full list of ten that has just dropped an entry, with entries of equal confidence
   ordered by path length *)
C12_Witness ==
  /\ pc = "upsert"
  /\ last.outcome = "appended_truncated"
  /\ Len(traces[1]) = 10
  /\ \E i \in 1..9 : traces[1][i].confidence = traces[1][i + 1].confidence

(* a call for a stored path with a confidence that is not greater has just been made *)
C12_WitnessKept == pc = "upsert" /\ last.outcome = "kept" /\ traces[1][1].confidence = 700

(***************************************************************************)
(* Context baselines                                                       *)
(***************************************************************************)
Perturbation(node_id, op) == [node_id |-> node_id, op |-> op]

(* the table, in its insertion order *)
CONTEXT_BASELINE_EFFECTS ==
  << [context_id |-> "ace_inhibitor",
      effects |-> << <<"renal.raas.at1_receptor", "decrease">>,
                     <<"renal.raas.aldosterone", "decrease">> >>],
     [context_id |-> "beta_blocker",
      effects |-> << <<"cardio.signaling.gs_protein", "decrease">>,
                     <<"cardio.hemodynamics.heart_rate", "decrease">> >>],
     [context_id |-> "heart_failure",
      effects |-> << <<"cardio.hemodynamics.stroke_volume", "decrease">>,
                     <<"cardio.metabolism.myocardial_o2_supply", "decrease">>,
                     <<"renal.metabolism.anp_bnp", "increase">> >>],
     [context_id |-> "dehydration",
      effects |-> << <<"renal.volume.ecf_volume", "decrease">>,
                     <<"renal.metabolism.osmolarity", "increase">>,
                     <<"renal.metabolism.adh", "increase">> >>],
     [context_id |-> "ckd",
      effects |-> << <<"renal.tubule.na_reabsorption", "decrease">>,
                     <<"renal.metabolism.potassium", "increase">> >>],
     [context_id |-> "copd",
      effects |-> << <<"pulm.mechanics.resistance", "increase">>,
                     <<"pulm.gasexchange.vq_mismatch", "increase">>,
                     <<"pulm.gasexchange.diffusion_capacity", "decrease">> >>] >>

BaselineKeptAlways(node_id, user_nodes, added_nodes) == FALSE

(* explicit user inputs win over context defaults for the same node *)
BaselineSkipped(node_id, user_nodes, added_nodes) ==
  node_id \in user_nodes \/ node_id \in added_nodes

(* the inner loop: st is [merged, added_nodes] *)
RECURSIVE AppendEffects(_, _, _)
AppendEffects(st, effects, user_nodes) ==
  IF effects = <<>> THEN st
  ELSE LET node_id == Head(effects)[1]
           op == Head(effects)[2]
       IN IF BaselineSkipped(node_id, user_nodes, st.added_nodes)
          THEN AppendEffects(st, Tail(effects), user_nodes)
          ELSE AppendEffects([merged |-> Append(st.merged, Perturbation(node_id, op)),
                              added_nodes |-> st.added_nodes \cup {node_id}],
                             Tail(effects), user_nodes)

(* the outer loop over the items of the table *)
RECURSIVE AppendContexts(_, _, _, _)
AppendContexts(st, items, context, user_nodes) ==
  IF items = <<>> THEN st
  ELSE IF ~DictGet(context, Head(items).context_id, FALSE)
       THEN AppendContexts(st, Tail(items), context, user_nodes)
       ELSE AppendContexts(AppendEffects(st, Head(items).effects, user_nodes),
                           Tail(items), context, user_nodes)

apply_context_baselines(perturbations, context) ==
  AppendContexts([merged |-> perturbations, added_nodes |-> {}],
                 CONTEXT_BASELINE_EFFECTS, context,
                 {perturbations[i].node_id : i \in 1..Len(perturbations)}).merged

UserCatalogue ==
  << Perturbation("renal.metabolism.potassium", "decrease"),
     Perturbation("renal.raas.renin", "increase"),
     Perturbation("renal.metabolism.potassium", "set"),
     Perturbation("cardio.hemodynamics.heart_rate", "block") >>

UserLists == SubLists(UserCatalogue, MaxPerturbations)

ContextIds == {CONTEXT_BASELINE_EFFECTS[i].context_id : i \in 1..Len(CONTEXT_BASELINE_EFFECTS)}

(* every flag true, false or absent *)
BaselineContexts == UNION {[S -> BOOLEAN] : S \in SUBSET ContextIds}

(* the endpoint's model_copy: the request with its perturbations merged; last keeps the
   request as it came in *)
ApplyBaselines ==
  /\ pc = "new"
  /\ \E p \in UserLists, c \in BaselineContexts :
       /\ request' = [perturbations |-> apply_context_baselines(p, c), context |-> c,
                      options |-> SimulationOptions]
       /\ last' = [node |-> 0, tick |-> 0, outcome |-> "merged", deliveries |-> <<>>,
                   perturbations |-> p]
  /\ pc' = "merged"
  /\ UNCHANGED <<nodes, edges, compiled_edges, adj, rev_adj, latest_node_states,
                 max_tick, tick, influence_buffer, node_states, state_order, node_activity,
                 traces, propagated_directions, nodes_to_resolve, queued_nodes, response,
                 hist>>

NextBaselines == ApplyBaselines

BaselineSpec == Init /\ [][NextBaselines]_vars

(* all rows of the table in table order *)
BaselineRows ==
  LET RECURSIVE Rows(_)
      Rows(items) ==
        IF items = <<>> THEN <<>>
        ELSE [k \in 1..Len(Head(items).effects) |->
                [context_id |-> Head(items).context_id,
                 node_id |-> Head(items).effects[k][1],
                 op |-> Head(items).effects[k][2]]] \o Rows(Tail(items))
  IN Rows(CONTEXT_BASELINE_EFFECTS)

(* the rows the claim says are appended: of a flag that is true, on a node the user did not
   perturb and no earlier appended row names *)
ExpectedRows(user, context) ==
  LET on == {i \in 1..Len(BaselineRows) :
               /\ BaselineRows[i].context_id \in DOMAIN context
               /\ context[BaselineRows[i].context_id]
               /\ \A k \in 1..Len(user) : user[k].node_id # BaselineRows[i].node_id}
      first == {i \in on : \A j \in on : j < i => BaselineRows[j].node_id # BaselineRows[i].node_id}
  IN SubList(BaselineRows, first)

(* C13: context baselines.  The merged list is the user perturbations, unchanged and in
   order, followed for every true flag in table order by that flag's baseline perturbations
   on nodes that are neither user-perturbed nor already appended; a false or absent flag
   adds nothing. *)
C13_Baselines ==
  pc = "merged" =>
    \A user \in {last.perturbations} : \A rows \in {ExpectedRows(user, request.context)} :
      /\ Len(request.perturbations) = Len(user) + Len(rows)
      /\ SubSeq(request.perturbations, 1, Len(user)) = user
      /\ \A k \in 1..Len(rows) :
           request.perturbations[Len(user) + k] = Perturbation(rows[k].node_id, rows[k].op)

(* a user perturbation of potassium with ckd true and another flag false: the ckd default
   for potassium is left out, the other ckd default is appended *)
C13_Witness ==
  /\ pc = "merged"
  /\ DictGet(request.context, "ckd", FALSE)
  /\ \E f \in DOMAIN request.context : ~request.context[f]
  /\ Len(last.perturbations) > 0
  /\ last.perturbations[1].node_id = "renal.metabolism.potassium"
  /\ Len(request.perturbations) > Len(last.perturbations)
  /\ \A k \in (Len(last.perturbations) + 1)..Len(request.perturbations) :
       request.perturbations[k].node_id # "renal.metabolism.potassium"

(***************************************************************************)
(* Perturbations that seed nothing: op = set, unknown nodes                *)
(***************************************************************************)
(* the chain 1 -> 3 -> 2, both edges immediate *)
SkipCatalogue == << Edge(1, 3, "enables"), Edge(3, 2, "decreases") >>

SkipGraphs == SubLists(SkipCatalogue, MaxEdges)

SkipPerturbations ==
  << [node_id |-> 3, op |-> "set"],
     [node_id |-> UnknownNode, op |-> "increase"],
     [node_id |-> 1, op |-> "increase"] >>

SkipRequests ==
  {[perturbations |-> p, context |-> <<>>, options |-> SimulationOptions] :
     p \in SubLists(SkipPerturbations, MaxPerturbations)}

ConstructSkip == ConstructWith(SkipGraphs)

CallSkip == Len(hist) < MaxRuns /\ CallWith(SkipRequests)

NextSkip ==
  ConstructSkip \/ CallSkip \/ Seed \/ BeginTick \/ ResolveStep \/ EndTick \/ BuildResponse
    \/ Return

SpecSkip == Init /\ [][NextSkip]_vars

RemoveAt(seq, k) == SubList(seq, (1..Len(seq)) \ {k})

WithoutSet(r) ==
  [r EXCEPT !.perturbations = SubList(@, {k \in 1..Len(@) : @[k].op # "set"})]

HasSet(r) == \E k \in 1..Len(r.perturbations) : r.perturbations[k].op = "set"

(* C14: op = set is a no-op.  A set perturbation gives its node no resolved state and no
   fan-out, and the response of a request equals the response of the same request with
   every set perturbation removed. *)
C14_SetNoOp ==
  /\ \A i, j \in 1..Len(hist) :
       hist[j].request = WithoutSet(hist[i].request)
         => hist[j].response = hist[i].response
  /\ (pc \in {"tick", "loop", "done"} /\ request.perturbations # <<>>
        /\ \A k \in 1..Len(request.perturbations) : request.perturbations[k].op = "set")
       => (AllStates = {} /\ AllTraces = {})

(* the request with a set perturbation has been answered differently from the same
   request without it *)
C14_Differs ==
  \E i, j \in 1..Len(hist) :
    /\ HasSet(hist[i].request)
    /\ hist[j].request = WithoutSet(hist[i].request)
    /\ hist[j].response # hist[i].response

(* C15: unknown perturbation nodes are tolerated.  A perturbation whose node is not in the
   graph seeds nothing: the response equals the response of the same request without that
   perturbation, the other perturbations being applied as they are without it. *)
C15_UnknownSkipped ==
  /\ \A i, j \in 1..Len(hist) :
       \A k \in 1..Len(hist[i].request.perturbations) :
         (hist[i].request.perturbations[k].node_id \notin DOMAIN nodes
            /\ hist[j].request = [hist[i].request EXCEPT !.perturbations = RemoveAt(@, k)])
         => hist[j].response = hist[i].response
  /\ pc \in {"tick", "loop", "done"} =>
       \A n \in NodeIds :
         Len(SelectSeq(influence_buffer[n][0], LAMBDA inf : inf.path = <<n>>))
           = Cardinality({k \in 1..Len(request.perturbations) :
                            request.perturbations[k].node_id = n})

(* a request naming the unknown node before node 1 and the same request without the unknown
   node have both been answered, and node 1 is affected *)
C15_Witness ==
  \E i, j \in 1..Len(hist) :
    /\ Len(hist[i].request.perturbations) = 2
    /\ hist[i].request.perturbations[1].node_id = UnknownNode
    /\ hist[j].request = [hist[i].request EXCEPT !.perturbations = RemoveAt(@, 1)]
    /\ 1 \in AffectedIds(hist[i].response)
    /\ 2 \in AffectedIds(hist[i].response)

(***************************************************************************)
(* The compare endpoint                                                    *)
(***************************************************************************)
AffectedNode(node_id, direction, confidence, effect_size) ==
  [node_id |-> node_id, direction |-> direction, confidence |-> confidence,
   effect_size |-> effect_size]

(* an Optional[AffectedNode] is a list of no or one element *)
_index_affected_by_node(affected_nodes) ==
  [n \in {affected_nodes[i].node_id : i \in 1..Len(affected_nodes)} |->
     affected_nodes[CHOOSE i \in 1..Len(affected_nodes) :
                      /\ affected_nodes[i].node_id = n
                      /\ \A j \in (i + 1)..Len(affected_nodes) : affected_nodes[j].node_id # n]]

_classify_change(baseline, intervention) ==
  LET baseline_dir == IF baseline # <<>> THEN baseline[1].direction ELSE NoneStr
      intervention_dir == IF intervention # <<>> THEN intervention[1].direction ELSE NoneStr
      baseline_conf == IF baseline # <<>> THEN baseline[1].confidence ELSE 0
      intervention_conf == IF intervention # <<>> THEN intervention[1].confidence ELSE 0
      change_type ==
        IF baseline = <<>> /\ intervention # <<>> THEN "new"
        ELSE IF baseline # <<>> /\ intervention = <<>> THEN "resolved"
        ELSE IF baseline # <<>> /\ intervention # <<>> /\ baseline_dir # intervention_dir
             THEN "direction_flip"
        ELSE IF intervention_conf > baseline_conf + 50 THEN "strengthened"
        ELSE IF baseline_conf > intervention_conf + 50 THEN "weakened"
        ELSE "unchanged"
  IN [node_id |-> IF intervention # <<>> THEN intervention[1].node_id
                  ELSE IF baseline # <<>> THEN baseline[1].node_id ELSE 0,
      baseline_direction |-> baseline_dir,
      intervention_direction |-> intervention_dir,
      baseline_confidence |-> baseline_conf,
      intervention_confidence |-> intervention_conf,
      baseline_effect_size |-> 0,
      intervention_effect_size |-> 0,
      confidence_delta |-> intervention_conf - baseline_conf,
      effect_size_delta |-> 0,
      change_type |-> change_type]

OptionalGet(map, node_id) == IF node_id \in DOMAIN map THEN <<map[node_id]>> ELSE <<>>

(* the changed list of compare_simulations *)
compare_simulations(baseline_affected, intervention_affected) ==
  LET baseline_map == _index_affected_by_node(baseline_affected)
      intervention_map == _index_affected_by_node(intervention_affected)
      ids == DOMAIN baseline_map \cup DOMAIN intervention_map
      order == SortAsc(SubList([n \in NodeIds |-> n], ids))
      items == [k \in 1..Len(order) |->
                  _classify_change(OptionalGet(baseline_map, order[k]),
                                   OptionalGet(intervention_map, order[k]))]
      changed == SelectSeq(items, LAMBDA item : item.change_type # "unchanged")
  IN SortDescBy(changed, [k \in 1..Len(changed) |-> <<Abs(changed[k].confidence_delta)>>])

(* what a simulation may report for node 1 and for node 2 *)
AffectedChoices(node_id) ==
  IF node_id = 1
  THEN {<<>>} \cup {<<AffectedNode(1, d, c, e)>> :
                       d \in {"up", "down"}, c \in {400, 900}, e \in {200, 230, 400}}
  ELSE {<<>>} \cup {<<AffectedNode(2, "up", 700, e)>> : e \in {200, 800}}

AffectedLists == {a \o b : a \in AffectedChoices(2), b \in AffectedChoices(1)}

(* compare_simulations on the affected nodes of its two simulations *)
Compare ==
  /\ pc = "new"
  /\ \E b \in AffectedLists, i \in AffectedLists :
       response' = [baseline |-> [affected_nodes |-> b],
                    intervention |-> [affected_nodes |-> i],
                    changed_nodes |-> compare_simulations(b, i)]
  /\ pc' = "compared"
  /\ UNCHANGED <<nodes, edges, compiled_edges, adj, rev_adj, latest_node_states, request,
                 max_tick, tick, influence_buffer, node_states, state_order, node_activity,
                 traces, propagated_directions, nodes_to_resolve, queued_nodes, last, hist>>

NextCompare == Compare

CompareSpec == Init /\ [][NextCompare]_vars

BaselineOf(n) == OptionalGet(_index_affected_by_node(response.baseline.affected_nodes), n)
InterventionOf(n) ==
  OptionalGet(_index_affected_by_node(response.intervention.affected_nodes), n)
ComparedIds == {n \in NodeIds : BaselineOf(n) # <<>> \/ InterventionOf(n) # <<>>}
EffectOf(opt) == IF opt = <<>> THEN 0 ELSE opt[1].effect_size

(* the change type the rule on effect sizes gives *)
ChangeByEffectSize(b, i) ==
  IF b = <<>> /\ i # <<>> THEN "new"
  ELSE IF b # <<>> /\ i = <<>> THEN "resolved"
  ELSE IF b[1].direction # i[1].direction THEN "direction_flip"
  ELSE IF i[1].effect_size > b[1].effect_size + 50 THEN "strengthened"
  ELSE IF b[1].effect_size > i[1].effect_size + 50 THEN "weakened"
  ELSE "unchanged"

(* C16: change classification.  _classify_change gives new, resolved, direction_flip, then
   strengthened iff the intervention's effect_size exceeds the baseline's by more than
   0.05, weakened iff the baseline's exceeds the intervention's by more than 0.05, and
   unchanged otherwise; a difference in confidence alone is unchanged. *)
C16_Classify ==
  pc = "compared" =>
    \A n \in ComparedIds :
      _classify_change(BaselineOf(n), InterventionOf(n)).change_type
        = ChangeByEffectSize(BaselineOf(n), InterventionOf(n))

(* a node reported in one direction with equal effect sizes and confidences 0.4 and 0.9 is
   among the changed nodes *)
C16_Differs ==
  /\ pc = "compared"
  /\ \E k \in 1..Len(response.changed_nodes) :
       \E n \in {response.changed_nodes[k].node_id} :
         /\ response.changed_nodes[k].change_type = "strengthened"
         /\ EffectOf(BaselineOf(n)) = EffectOf(InterventionOf(n))

(* C17: compare output.  changed_nodes holds the nodes of the union of the two affected
   sets whose change_type is not unchanged, each with effect_size_delta equal to the
   intervention's effect_size minus the baseline's (0 for an absent side), sorted
   descending by the absolute effect_size_delta. *)
C17_ChangedNodes ==
  pc = "compared" =>
    \A changed \in {response.changed_nodes} :
      /\ {changed[k].node_id : k \in 1..Len(changed)}
           = {n \in ComparedIds :
                _classify_change(BaselineOf(n), InterventionOf(n)).change_type # "unchanged"}
      /\ \A k \in 1..Len(changed) :
           changed[k].effect_size_delta
             = EffectOf(InterventionOf(changed[k].node_id)) - EffectOf(BaselineOf(changed[k].node_id))
      /\ \A k \in 1..(Len(changed) - 1) :
           Abs(changed[k].effect_size_delta) >= Abs(changed[k + 1].effect_size_delta)

(* a changed node whose effect sizes differ carries an effect_size_delta of 0 *)
C17_Differs ==
  /\ pc = "compared"
  /\ \E k \in 1..Len(response.changed_nodes) :
       \E n \in {response.changed_nodes[k].node_id} :
         /\ EffectOf(InterventionOf(n)) # EffectOf(BaselineOf(n))
         /\ response.changed_nodes[k].effect_size_delta = 0

(***************************************************************************)
(* Edge compilation                                                        *)
(***************************************************************************)
(* logical edges with and without profiles, with phases that set and leave fields *)
CompileCatalogue ==
  << Edge(1, 2, "increases"),
     [Edge(2, 3, "decreases") EXCEPT !.delay = "hours", !.weight = 600, !.priority = "high"],
     WithProfile([Edge(1, 2, "increases") EXCEPT !.weight = 600, !.priority = "high"],
                 <<EdgePhase("hours")>>),
     WithProfile(Edge(1, 3, "increases"),
                 <<Phase("immediate", "increases", 0), Phase("days", "decreases", 200)>>),
     WithProfile([Edge(3, 4, "causes") EXCEPT !.activation_threshold = 300,
                                             !.activation_direction = "up"],
                 << EdgePhase("minutes"),
                    [EdgePhase("hours") EXCEPT !.activation_threshold = 0,
                                               !.activation_direction = "down",
                                               !.priority = "low"] >>),
     [Edge(4, 1, "enables") EXCEPT !.delay = "days", !.context = ("ckd" :> TRUE)],
     Edge(2, 2, "decreases"),
     WithProfile(Edge(2, 4, "requires"),
                 <<EdgePhase("immediate"), EdgePhase("minutes"), EdgePhase("hours"),
                   EdgePhase("days")>>),
     [Edge(3, 1, "decreases") EXCEPT !.weight = 0, !.delay = "minutes"] >>

CompileGraphs == SubLists(CompileCatalogue, MaxEdges)

ConstructCompile == ConstructWith(CompileGraphs)

NextCompile == ConstructCompile

CompileSpec == Init /\ [][NextCompile]_vars

PhaseCount(edge) == Max2(1, Len(edge.temporal_profile))

(* the number of compiled edges the first n logical edges give *)
RECURSIVE CompiledBefore(_)
CompiledBefore(n) == IF n = 0 THEN 0 ELSE CompiledBefore(n - 1) + PhaseCount(edges[n])

Inherit(phase_value, edge_value, unset) == IF phase_value = unset THEN edge_value ELSE phase_value

(* C18: edge compilation.  compiled_edges holds in load order one compiled edge per phase
   of every logical edge, one at edge.delay with is_legacy_timing true for an edge without
   a temporal_profile, so its size is the sum of max(1, |temporal_profile|); at_tick is the
   tick of at, and a phase field left unset takes the edge's value, a phase weight of 0
   staying 0. *)
C18_Compile ==
  pc = "idle" =>
    /\ Len(compiled_edges) = CompiledBefore(Len(edges))
    /\ \A n \in 1..Len(edges) : \A edge \in {edges[n]} :
         IF edge.temporal_profile = <<>>
         THEN \A c \in {compiled_edges[CompiledBefore(n - 1) + 1]} :
                /\ c.source = edge.source /\ c.target = edge.target
                /\ c.at = edge.delay
                /\ c.at_tick = TickOfWindow(c.at)
                /\ c.is_legacy_timing
                /\ c.rel = edge.rel /\ c.weight = edge.weight /\ c.priority = edge.priority
                /\ c.activation_direction = edge.activation_direction
                /\ c.activation_threshold = edge.activation_threshold
         ELSE \A k \in 1..Len(edge.temporal_profile) :
                \A c \in {compiled_edges[CompiledBefore(n - 1) + k]} :
                  \A phase \in {edge.temporal_profile[k]} :
                    /\ c.source = edge.source /\ c.target = edge.target
                    /\ c.at = phase.at
                    /\ c.at_tick = TickOfWindow(c.at)
                    /\ c.rel = Inherit(phase.rel, edge.rel, NoneStr)
                    /\ c.weight = Inherit(phase.weight, edge.weight, None)
                    /\ c.priority = Inherit(phase.priority, edge.priority, NoneStr)
                    /\ c.activation_direction
                         = Inherit(phase.activation_direction, edge.activation_direction, NoneStr)
                    /\ c.activation_threshold
                         = Inherit(phase.activation_threshold, edge.activation_threshold, None)

(* an engine built from an edge without a profile followed by an edge whose first phase
   sets a weight of 0 and by an edge with a phase that sets nothing *)
C18_Witness ==
  /\ pc = "idle"
  /\ Len(edges) = 3
  /\ edges[1].temporal_profile = <<>>
  /\ Len(edges[2].temporal_profile) = 2
  /\ edges[2].temporal_profile[1].weight = 0 /\ edges[2].weight = One
  /\ compiled_edges[2].weight = 0
  /\ \E k \in 1..Len(edges[3].temporal_profile) : edges[3].temporal_profile[k] = EdgePhase("hours")
  /\ Len(compiled_edges) > 3

(***************************************************************************)
(* GraphLoader.load_all                                                    *)
(***************************************************************************)
MaxPacks == 3

(* Edge.validate_temporal_profile: the error it raises, or NoneStr *)
RECURSIVE validate_phases(_, _, _)
validate_phases(edge, phases, seen_times) ==
  IF phases = <<>> THEN NoneStr
  ELSE LET phase == Head(phases)
           phase_threshold == IF phase.activation_threshold # None
                              THEN phase.activation_threshold ELSE edge.activation_threshold
           phase_direction == IF phase.activation_direction # NoneStr
                              THEN phase.activation_direction ELSE edge.activation_direction
       IN IF phase.at \in seen_times THEN "repeats at"
          ELSE IF phase_direction # "any" /\ phase_threshold = None
               THEN "activation gating without a resolved activation_threshold"
          ELSE validate_phases(edge, Tail(phases), seen_times \cup {phase.at})

validate_temporal_profile(edge) == validate_phases(edge, edge.temporal_profile, {})

(* the loader while it reads: its nodes, its edges and the error raised, if any *)
RECURSIVE LoadNodes(_, _)
LoadNodes(st, node_ids) ==
  IF st.error # NoneStr \/ node_ids = <<>> THEN st
  ELSE IF Head(node_ids) \in DOMAIN st.nodes
       THEN [st EXCEPT !.error = "Duplicate node ID"]
       ELSE LoadNodes([st EXCEPT !.nodes = DictSet(@, Head(node_ids), Node(Head(node_ids)))],
                      Tail(node_ids))

RECURSIVE LoadEdges(_, _)
LoadEdges(st, pack_edges) ==
  IF st.error # NoneStr \/ pack_edges = <<>> THEN st
  ELSE IF validate_temporal_profile(Head(pack_edges)) # NoneStr
       THEN [st EXCEPT !.error = validate_temporal_profile(Head(pack_edges))]
       ELSE LoadEdges([st EXCEPT !.edges = Append(@, Head(pack_edges))], Tail(pack_edges))

_load_pack(st, pack) == LoadEdges(LoadNodes(st, pack.nodes), pack.edges)

_validate_graphSourceOnly(st) ==
  IF st.error # NoneStr THEN st
  ELSE IF \E i \in 1..Len(st.edges) : st.edges[i].source \notin DOMAIN st.nodes
       THEN [st EXCEPT !.error = "Edge source not found"]
       ELSE st

_validate_graph(st) ==
  IF st.error # NoneStr THEN st
  ELSE LET bad == {i \in 1..Len(st.edges) :
                     st.edges[i].source \notin DOMAIN st.nodes
                       \/ st.edges[i].target \notin DOMAIN st.nodes}
       IN IF bad = {} THEN st
          ELSE LET i == CHOOSE i \in bad : \A j \in bad : i <= j
               IN [st EXCEPT !.error = IF st.edges[i].source \notin DOMAIN st.nodes
                                       THEN "Edge source not found"
                                       ELSE "Edge target not found"]

RECURSIVE LoadPacks(_, _)
LoadPacks(st, packs) ==
  IF st.error # NoneStr \/ packs = <<>> THEN st
  ELSE LoadPacks(_load_pack(st, Head(packs)), Tail(packs))

load_all(packs) ==
  _validate_graph(LoadPacks([nodes |-> <<>>, edges |-> <<>>, error |-> NoneStr], packs))

Pack(node_ids, pack_edges) == [nodes |-> node_ids, edges |-> pack_edges]

(* the pack files a directory may hold *)
PackCatalogue ==
  << Pack(<<1>>, <<>>),
     Pack(<<2>>, <<Edge(1, 2, "increases")>>),
     Pack(<<1>>, <<>>),
     Pack(<<3>>, <<[Edge(3, UnknownNode, "increases") EXCEPT !.delay = "hours"]>>),
     Pack(<<3, 4>>,
          <<WithProfile(Edge(3, 4, "increases"), <<EdgePhase("hours"), EdgePhase("hours")>>)>>),
     Pack(<<4>>,
          <<WithProfile(Edge(4, 4, "decreases"),
                        <<[EdgePhase("hours") EXCEPT !.activation_direction = "up"]>>)>>),
     Pack(<<3>>,
          <<WithProfile([Edge(2, 3, "decreases") EXCEPT !.activation_threshold = 300],
                        <<[EdgePhase("minutes") EXCEPT !.activation_direction = "down"]>>)>>),
     Pack(<<>>, <<>>) >>

(* the files of a directory in the order os.walk yields them: any order *)
PackLists ==
  {[k \in 1..Len(s) |-> PackCatalogue[s[k]]] :
     s \in {t \in UNION {[1..n -> 1..Len(PackCatalogue)] : n \in 0..MaxPacks} :
              \A a, b \in 1..Len(t) : a # b => t[a] # t[b]}}

(* load_all: it returns the nodes and the edges, or raises; last keeps the packs read *)
Load ==
  /\ pc = "new"
  /\ \E packs \in PackLists :
       \E st \in {load_all(packs)} :
         /\ last' = [node |-> 0, tick |-> 0, outcome |-> st.error, deliveries |-> <<>>,
                     packs |-> packs]
         /\ IF st.error = NoneStr
            THEN nodes' = st.nodes /\ edges' = st.edges /\ pc' = "loaded"
            ELSE UNCHANGED <<nodes, edges>> /\ pc' = "load_error"
  /\ UNCHANGED <<compiled_edges, adj, rev_adj, latest_node_states, request,
                 max_tick, tick, influence_buffer, node_states, state_order, node_activity,
                 traces, propagated_directions, nodes_to_resolve, queued_nodes, response,
                 hist>>

NextLoad == Load

LoaderSpec == Init /\ [][NextLoad]_vars

RECURSIVE Flatten(_)
Flatten(seqs) == IF seqs = <<>> THEN <<>> ELSE Head(seqs) \o Flatten(Tail(seqs))

DeclaredNodes == Flatten([k \in 1..Len(last.packs) |-> last.packs[k].nodes])
DeclaredEdges == Flatten([k \in 1..Len(last.packs) |-> last.packs[k].edges])

DuplicateId == \E a, b \in 1..Len(DeclaredNodes) : a # b /\ DeclaredNodes[a] = DeclaredNodes[b]

DanglingEndpoint ==
  \E i \in 1..Len(DeclaredEdges) :
    \/ DeclaredEdges[i].source \notin Elements(DeclaredNodes)
    \/ DeclaredEdges[i].target \notin Elements(DeclaredNodes)

RepeatedAt ==
  \E i \in 1..Len(DeclaredEdges) :
    \E a, b \in 1..Len(DeclaredEdges[i].temporal_profile) :
      a # b /\ DeclaredEdges[i].temporal_profile[a].at = DeclaredEdges[i].temporal_profile[b].at

GatedWithoutThreshold ==
  \E i \in 1..Len(DeclaredEdges) :
    \E a \in 1..Len(DeclaredEdges[i].temporal_profile) :
      \A edge \in {DeclaredEdges[i]} : \A phase \in {edge.temporal_profile[a]} :
        /\ Inherit(phase.activation_direction, edge.activation_direction, NoneStr) # "any"
        /\ Inherit(phase.activation_threshold, edge.activation_threshold, None) = None

(* C19: loader contract.  load_all returns a graph only if node ids are unique across the
   packs and every edge endpoint is a node of some pack, in whatever order the packs are
   read; a duplicate id, a dangling endpoint, a profile that repeats an at, or a gated
   phase without a resolved threshold makes it raise. *)
C19_LoaderContract ==
  pc \in {"loaded", "load_error"} =>
    /\ pc = "loaded" <=>
         ~(DuplicateId \/ DanglingEndpoint \/ RepeatedAt \/ GatedWithoutThreshold)
    /\ pc = "loaded" =>
         /\ DOMAIN nodes = Elements(DeclaredNodes)
         /\ edges = DeclaredEdges

(* packs read in an order where an edge comes before the pack of its source node, with a
   gated phase whose threshold comes from the edge *)
C19_Witness ==
  /\ pc = "loaded"
  /\ Len(last.packs) = 3
  /\ Len(edges) = 2
  /\ last.packs[1].edges # <<>>
  /\ edges[1].source \notin Elements(last.packs[1].nodes)
  /\ \E i \in 1..2 : edges[i].temporal_profile # <<>>

(* C20: legacy-timing normalisation.  After load_all an edge declared without a
   temporal_profile carries a temporal_profile of one phase whose at is the edge's delay. *)
C20_Normalised ==
  pc = "loaded" =>
    \A i \in 1..Len(DeclaredEdges) :
      DeclaredEdges[i].temporal_profile = <<>> =>
        /\ Len(edges[i].temporal_profile) = 1
        /\ edges[i].temporal_profile[1].at = DeclaredEdges[i].delay

(* a loaded edge still has an empty temporal_profile *)
C20_Differs ==
  /\ pc = "loaded"
  /\ \E i \in 1..Len(edges) : edges[i].temporal_profile = <<>>

(***************************************************************************)
(* Syndromes and trace summaries                                           *)
(***************************************************************************)
MaxPathLen == 4
MaxSyndromes == 3

Syndrome(id, label, sequence) == [id |-> id, label |-> label, sequence |-> sequence]

(* the loop of _subsequence_span from position current_idx (0-based) on; a span is
   <<first_idx, last_idx>>, no span is <<>>; first_match_idx is None until the first match *)
RECURSIVE SpanScan(_, _, _, _, _)
SpanScan(path, sequence, current_idx, seq_idx, first_match_idx) ==
  IF current_idx >= Len(path) THEN <<>>
  ELSE IF path[current_idx + 1] = sequence[seq_idx + 1]
       THEN LET first == IF first_match_idx = None THEN current_idx ELSE first_match_idx
            IN IF seq_idx + 1 = Len(sequence) THEN <<first, current_idx>>
               ELSE SpanScan(path, sequence, current_idx + 1, seq_idx + 1, first)
       ELSE SpanScan(path, sequence, current_idx + 1, seq_idx, first_match_idx)

(* an empty sequence counted as found, as _is_subsequence of the quality script does *)
_subsequence_spanEmptyFound(path, sequence) ==
  IF sequence = <<>> THEN <<0, 0>> ELSE SpanScan(path, sequence, 0, 0, None)

_subsequence_span(path, sequence) ==
  IF sequence = <<>> THEN <<>> ELSE SpanScan(path, sequence, 0, 0, None)

(* is_subsumed that never holds *)
IsSubsumedNever(item, matched_items) == FALSE

(* lines 287-293: some match of another label spans the item and is longer *)
IsSubsumed(item, matched_items) ==
  \E k \in 1..Len(matched_items) :
    /\ matched_items[k].label # item.label
    /\ matched_items[k].start <= item.start
    /\ matched_items[k].end >= item.end
    /\ (matched_items[k].end - matched_items[k].start) > (item.end - item.start)

RECURSIVE MatchedItems(_, _)
MatchedItems(syndromes, path) ==
  IF syndromes = <<>> THEN <<>>
  ELSE LET span == _subsequence_span(path, Head(syndromes).sequence)
       IN (IF span = <<>> THEN <<>>
           ELSE <<[start |-> span[1], end |-> span[2], label |-> Head(syndromes).label]>>)
          \o MatchedItems(Tail(syndromes), path)

RECURSIVE Dedupe(_, _)
Dedupe(deduped, items) ==
  IF items = <<>> THEN deduped
  ELSE IF Head(items).label \in Elements(deduped) THEN Dedupe(deduped, Tail(items))
       ELSE Dedupe(Append(deduped, Head(items).label), Tail(items))

(* ", ".join(labels) as a list of text pieces *)
RECURSIVE JoinComma(_)
JoinComma(labels) ==
  IF Len(labels) <= 1 THEN labels
  ELSE <<Head(labels), ", ">> \o JoinComma(Tail(labels))

(* the summary text as the list of its pieces; <<>> stands for None *)
FormatSummary(deduped) ==
  IF Len(deduped) = 1 THEN <<deduped[1]>>
  ELSE IF Len(deduped) = 2 THEN <<deduped[1], " followed by ", deduped[2]>>
  ELSE JoinComma(SubSeq(deduped, 1, Len(deduped) - 1))
       \o <<", followed by ", deduped[Len(deduped)]>>

_build_trace_summary(syndromes, path) ==
  IF Len(path) < 2 THEN <<>>
  ELSE LET matched_items == MatchedItems(syndromes, path)
       IN IF matched_items = <<>> THEN <<>>
          ELSE LET sorted == SortDescBy(matched_items,
                               [k \in 1..Len(matched_items) |->
                                  <<0 - matched_items[k].start,
                                    matched_items[k].end - matched_items[k].start>>])
                   filtered_items == SelectSeq(sorted, LAMBDA item : ~IsSubsumed(item, sorted))
               IN FormatSummary(Dedupe(<<>>, filtered_items))

SyndromeCatalogue ==
  << Syndrome("s1", "A", <<1, 2>>),
     Syndrome("s2", "B", <<2, 3>>),
     Syndrome("s3", "C", <<1, 2, 3>>),
     Syndrome("s4", "A", <<3>>),
     Syndrome("s5", "E", <<>>),
     Syndrome("s6", "D", <<3, 1>>),
     Syndrome("s7", "F", <<2, 2>>) >>

SyndromeLists == SubLists(SyndromeCatalogue, MaxSyndromes)

(* paths over three nodes, nodes may repeat *)
SummaryPaths == UNION {[1..n -> 1..3] : n \in 0..MaxPathLen}

(* an engine with some syndromes builds the summary of a path; last keeps both *)
BuildSummary ==
  /\ pc = "new"
  /\ \E syndromes \in SyndromeLists, path \in SummaryPaths :
       /\ last' = [node |-> 0, tick |-> 0, outcome |-> "summary", deliveries |-> <<>>,
                   syndromes |-> syndromes, path |-> path]
       /\ response' = [summary |-> _build_trace_summary(syndromes, path)]
  /\ pc' = "summarised"
  /\ UNCHANGED <<nodes, edges, compiled_edges, adj, rev_adj, latest_node_states, request,
                 max_tick, tick, influence_buffer, node_states, state_order, node_activity,
                 traces, propagated_directions, nodes_to_resolve, queued_nodes, hist>>

NextSummary == BuildSummary

SummarySpec == Init /\ [][NextSummary]_vars

(* the ways to find sequence in path in order: e[i] is the 0-based position of sequence[i] *)
Embeddings(path, sequence) ==
  {e \in [1..Len(sequence) -> 0..(Len(path) - 1)] :
     /\ \A i \in 1..Len(sequence) : path[e[i] + 1] = sequence[i]
     /\ \A i \in 1..(Len(sequence) - 1) : e[i] < e[i + 1]}

SpansOf(path, sequence) ==
  {<<e[1], e[Len(sequence)]>> : e \in Embeddings(path, sequence)}

NoRepeat(path) == \A a, b \in 1..Len(path) : a # b => path[a] # path[b]

(* C21: syndrome span.  _subsequence_span returns a span iff the sequence is non-empty and
   an order-preserving subsequence of the path, and the span is the shortest span of the
   path that contains the sequence, also when the path repeats a node. *)
C21_ShortestSpan ==
  pc = "summarised" =>
    \A k \in 1..Len(last.syndromes) : \A sequence \in {last.syndromes[k].sequence} :
      \A span \in {_subsequence_span(last.path, sequence)} :
        /\ span # <<>> <=> (sequence # <<>> /\ Embeddings(last.path, sequence) # {})
        /\ span # <<>> =>
             /\ span \in SpansOf(last.path, sequence)
             /\ \A other \in SpansOf(last.path, sequence) :
                  span[2] - span[1] <= other[2] - other[1]

(* C21 amended: the span returned is the earliest one: it starts at the first occurrence
   of the sequence's first node and ends at the earliest position where the sequence is
   complete; it is the shortest span when the path repeats no node. *)
C21_EarliestSpan ==
  pc = "summarised" =>
    \A k \in 1..Len(last.syndromes) : \A sequence \in {last.syndromes[k].sequence} :
      \A span \in {_subsequence_span(last.path, sequence)} :
        /\ span # <<>> <=> (sequence # <<>> /\ Embeddings(last.path, sequence) # {})
        /\ span # <<>> =>
             /\ span \in SpansOf(last.path, sequence)
             /\ \A other \in SpansOf(last.path, sequence) :
                  span[1] <= other[1] /\ span[2] <= other[2]
             /\ NoRepeat(last.path) =>
                  \A other \in SpansOf(last.path, sequence) :
                    span[2] - span[1] <= other[2] - other[1]

(* a path that repeats the first node of a matching sequence: the span returned starts at
   the first occurrence and a shorter span exists *)
C21_Witness ==
  /\ pc = "summarised"
  /\ \E k \in 1..Len(last.syndromes) : \A sequence \in {last.syndromes[k].sequence} :
       \A span \in {_subsequence_span(last.path, sequence)} :
         /\ span # <<>>
         /\ \E other \in SpansOf(last.path, sequence) :
              other[2] - other[1] < span[2] - span[1]

(* the matches of the syndromes of the engine on the path, by position in the list *)
MatchIds == {k \in 1..Len(last.syndromes) :
               _subsequence_span(last.path, last.syndromes[k].sequence) # <<>>}
SpanOfMatch(k) == _subsequence_span(last.path, last.syndromes[k].sequence)
SpanLen(k) == SpanOfMatch(k)[2] - SpanOfMatch(k)[1]

(* the matches that no longer span of another match contains *)
KeptIds ==
  {k \in MatchIds :
     ~\E j \in MatchIds \ {k} :
        /\ SpanOfMatch(j)[1] <= SpanOfMatch(k)[1]
        /\ SpanOfMatch(j)[2] >= SpanOfMatch(k)[2]
        /\ SpanLen(j) > SpanLen(k)}

(* the labels of a summary: its pieces at the odd positions *)
LabelsOf(summary) == [k \in 1..((Len(summary) + 1) \div 2) |-> summary[2 * k - 1]]

(* the text between the labels *)
SeparatorsOk(summary) ==
  \A n \in {(Len(summary) + 1) \div 2} :
    /\ Len(summary) = 2 * n - 1
    /\ \A k \in 1..(n - 1) :
         summary[2 * k] = IF n = 2 THEN " followed by "
                          ELSE IF k = n - 1 THEN ", followed by " ELSE ", "

(* label a may stand before label b: some kept match of a is not after every kept match of
   b in the order (first_idx ascending, span length descending) *)
MayPrecede(a, b) ==
  \E i \in {k \in KeptIds : last.syndromes[k].label = a} :
    \A j \in {k \in KeptIds : last.syndromes[k].label = b} :
      \/ SpanOfMatch(i)[1] < SpanOfMatch(j)[1]
      \/ SpanOfMatch(i)[1] = SpanOfMatch(j)[1] /\ SpanLen(i) >= SpanLen(j)

(* C22: trace summary.  _build_trace_summary gives no summary iff the path has fewer than 2
   nodes or no syndrome matches; otherwise it lists the labels of the matches not contained
   in a longer span of another match, ordered by (first_idx ascending, span length
   descending), each label once at its first occurrence, as "A", "A followed by B" or
   "A, B, ..., followed by Z". *)
C22_Summary ==
  pc = "summarised" =>
    \A summary \in {response.summary} :
      /\ summary = <<>> <=> (Len(last.path) < 2 \/ MatchIds = {})
      /\ summary # <<>> =>
           \A labels \in {LabelsOf(summary)} :
             /\ SeparatorsOk(summary)
             /\ Elements(labels) = {last.syndromes[k].label : k \in KeptIds}
             /\ \A a, b \in 1..Len(labels) :
                  a < b => (labels[a] # labels[b] /\ MayPrecede(labels[a], labels[b]))

(* a summary of three labels *)
C22_Witness ==
  /\ pc = "summarised"
  /\ Len(response.summary) = 5
  /\ response.summary[4] = ", followed by "

(* two labels, one match left out because a longer span of another label contains it *)
C22_WitnessSubsumed ==
  /\ pc = "summarised"
  /\ Len(response.summary) = 3
  /\ KeptIds # MatchIds

(***************************************************************************)
(* build_dependency_index                                                  *)
(***************************************************************************)
(* the ascending list of a set of node ids: sorted(values) *)
SortedList(S) == SubList([n \in 1..UnknownNode |-> n], S)

(* best_tick kept with the start in it *)
PopStartNot(best_tick, start) == best_tick

(* best_tick.pop(start, None) *)
PopStart(best_tick, start) == [n \in DOMAIN best_tick \ {start} |-> best_tick[n]]

(* heapq on (tick, node) tuples: the heap is a list, the smallest tuple is popped *)
HeapMinIndex(heap) ==
  CHOOSE i \in 1..Len(heap) :
    \A j \in 1..Len(heap) :
      \/ heap[i][1] < heap[j][1]
      \/ heap[i][1] = heap[j][1] /\ heap[i][2] < heap[j][2]
      \/ heap[i] = heap[j] /\ i <= j

(* the for loop over the edges of the popped node; st is [best_tick, heap] *)
RECURSIVE ReachEdges(_, _, _, _, _)
ReachEdges(st, current_tick, out_edges, tick_limit, neighbor_field) ==
  IF out_edges = <<>> THEN st
  ELSE LET edge == Head(out_edges)
           neighbor == edge[neighbor_field]
           next_tick == current_tick + edge.at_tick
       IN IF next_tick > tick_limit \/ next_tick >= DictGet(st.best_tick, neighbor, tick_limit + 1)
          THEN ReachEdges(st, current_tick, Tail(out_edges), tick_limit, neighbor_field)
          ELSE CHOOSE out \in
                 {ReachEdges(st1, current_tick, Tail(out_edges), tick_limit, neighbor_field) :
                    st1 \in {[best_tick |-> DictSet(st.best_tick, neighbor, next_tick),
                              heap |-> Append(st.heap, <<next_tick, neighbor>>)]}} : TRUE

(* the while loop *)
RECURSIVE ReachLoop(_, _, _, _)
ReachLoop(st, adjacency, tick_limit, neighbor_field) ==
  IF st.heap = <<>> THEN st.best_tick
  ELSE LET i == HeapMinIndex(st.heap)
           current_tick == st.heap[i][1]
           node_id == st.heap[i][2]
           popped == [st EXCEPT !.heap = RemoveAt(st.heap, i)]
       IN IF current_tick > DictGet(st.best_tick, node_id, tick_limit + 1)
          THEN ReachLoop(popped, adjacency, tick_limit, neighbor_field)
          ELSE CHOOSE out \in
                 {ReachLoop(st1, adjacency, tick_limit, neighbor_field) :
                    st1 \in {ReachEdges(popped, current_tick, DictGet(adjacency, node_id, <<>>),
                                        tick_limit, neighbor_field)}} : TRUE

_reachable_by_timescale(start, adjacency, tick_limit, neighbor_field) ==
  PopStart(ReachLoop([best_tick |-> (start :> 0), heap |-> << <<0, start>> >>],
                     adjacency, tick_limit, neighbor_field), start)

_group_reachability(adjacency, tick_limit, neighbor_field) ==
  [node_id \in DOMAIN nodes |->
     CHOOSE bucket \in
       {[timescale \in DOMAIN TIME_MAP |->
           SortedList({target_id \in DOMAIN earliest : earliest[target_id] = TIME_MAP[timescale]})] :
          earliest \in {_reachable_by_timescale(node_id, adjacency, tick_limit, neighbor_field)}} :
       TRUE]

_group_direct_neighbors(adjacency, neighbor_field) ==
  [node_id \in DOMAIN nodes |->
     [timescale \in DOMAIN TIME_MAP |->
        SortedList({DictGet(adjacency, node_id, <<>>)[k][neighbor_field] :
                      k \in {j \in 1..Len(DictGet(adjacency, node_id, <<>>)) :
                               DictGet(adjacency, node_id, <<>>)[j].at = timescale}})]]

_logical_adjacency ==
  [node_id \in DOMAIN nodes \cup {edges[k].source : k \in 1..Len(edges)}
                            \cup {edges[k].target : k \in 1..Len(edges)} |->
     {edges[k].target : k \in {j \in 1..Len(edges) : edges[j].source = node_id}}]

(* Tarjan's algorithm; st holds index, stack, on_stack, indexes, lowlinks and components.
   The neighbours, a Python set, are visited in ascending order *)
TarjanStart ==
  [index |-> 0, stack |-> <<>>, on_stack |-> {}, indexes |-> <<>>, lowlinks |-> <<>>,
   components |-> <<>>]

(* the end of strongconnect: a root pops its component off the stack *)
PopComponent(st, adjacency, node_id) ==
  IF st.lowlinks[node_id] # st.indexes[node_id] THEN st
  ELSE LET p == CHOOSE i \in 1..Len(st.stack) : st.stack[i] = node_id
           component == {st.stack[i] : i \in p..Len(st.stack)}
       IN [st EXCEPT !.stack = SubSeq(@, 1, p - 1),
                     !.on_stack = @ \ component,
                     !.components =
                        IF Cardinality(component) > 1 \/ node_id \in DictGet(adjacency, node_id, {})
                        THEN Append(@, SortedList(component)) ELSE @]

RECURSIVE strongconnect(_, _, _)
RECURSIVE VisitNeighbors(_, _, _, _)
strongconnect(st, adjacency, node_id) ==
  LET entered == [st EXCEPT !.indexes = DictSet(@, node_id, st.index),
                            !.lowlinks = DictSet(@, node_id, st.index),
                            !.index = @ + 1,
                            !.stack = Append(@, node_id),
                            !.on_stack = @ \cup {node_id}]
  IN CHOOSE out \in
       {PopComponent(visited, adjacency, node_id) :
          visited \in {VisitNeighbors(entered, adjacency, node_id,
                                      SortedList(DictGet(adjacency, node_id, {})))}} : TRUE

VisitNeighbors(st, adjacency, node_id, neighbors) ==
  IF neighbors = <<>> THEN st
  ELSE LET neighbor == Head(neighbors)
       IN IF neighbor \notin DOMAIN st.indexes
          THEN CHOOSE out \in
                 {VisitNeighbors(
                    [st1 EXCEPT !.lowlinks[node_id] = Min2(@, st1.lowlinks[neighbor])],
                    adjacency, node_id, Tail(neighbors)) :
                    st1 \in {strongconnect(st, adjacency, neighbor)}} : TRUE
          ELSE IF neighbor \in st.on_stack
               THEN VisitNeighbors(
                      [st EXCEPT !.lowlinks[node_id] = Min2(@, st.indexes[neighbor])],
                      adjacency, node_id, Tail(neighbors))
               ELSE VisitNeighbors(st, adjacency, node_id, Tail(neighbors))

(* the loop over the keys of the adjacency *)
RECURSIVE TarjanAll(_, _, _)
TarjanAll(st, adjacency, node_ids) ==
  IF node_ids = <<>> THEN st
  ELSE IF Head(node_ids) \in DOMAIN st.indexes THEN TarjanAll(st, adjacency, Tail(node_ids))
       ELSE CHOOSE out \in
              {TarjanAll(st1, adjacency, Tail(node_ids)) :
                 st1 \in {strongconnect(st, adjacency, Head(node_ids))}} : TRUE

(* components are disjoint sorted lists, so the key (len, component) orders them as
   (len, first node) does *)
SortComponents(components) ==
  SortDescBy(components,
             [k \in 1..Len(components) |-> <<0 - Len(components[k]), 0 - components[k][1]>>])

(* the same without the final sort *)
_strongly_connected_componentsUnsorted(adjacency) ==
  TarjanAll(TarjanStart, adjacency, SortedList(DOMAIN adjacency)).components

_strongly_connected_components(adjacency) ==
  SortComponents(TarjanAll(TarjanStart, adjacency, SortedList(DOMAIN adjacency)).components)

(* the text "source rel target" of an edge, as its three parts *)
EdgeText(edge) == <<edge.source, edge.rel, edge.target>>

(* sorted(pairs) for a set of pairs of node ids *)
RECURSIVE SortedPairs(_)
SortedPairs(S) ==
  IF S = {} THEN <<>>
  ELSE LET m == CHOOSE p \in S : \A q \in S : p[1] < q[1] \/ (p[1] = q[1] /\ p[2] <= q[2])
       IN <<m>> \o SortedPairs(S \ {m})

(* has_reciprocal without the self-loops *)
HasReciprocalPairsOnly(reciprocal_pairs, cluster_edges) == reciprocal_pairs # <<>>

HasReciprocal(reciprocal_pairs, cluster_edges) ==
  reciprocal_pairs # <<>>
    \/ \E k \in 1..Len(cluster_edges) : cluster_edges[k].source = cluster_edges[k].target

(* the body of the loop of _build_feedback_clusters for one component: the cluster in a
   list, or the empty list when the component is passed over.  The order of the edge texts
   is left out: edges is the set of the texts *)
FeedbackCluster(component) ==
  LET node_set == Elements(component)
      cluster_edges == SelectSeq(edges, LAMBDA edge : edge.source \in node_set
                                                       /\ edge.target \in node_set)
      cluster_compiled == SelectSeq(compiled_edges, LAMBDA edge : edge.source \in node_set
                                                                  /\ edge.target \in node_set)
      edge_signs == {IF cluster_edges[k].rel \in POSITIVE_RELATIONS THEN "positive"
                     ELSE "negative" : k \in 1..Len(cluster_edges)}
      seen_pairs == {<<cluster_edges[k].source, cluster_edges[k].target>> :
                       k \in 1..Len(cluster_edges)}
      reciprocal_pairs ==
        SortedPairs({<<Min2(p[1], p[2]), Max2(p[1], p[2])>> :
                       p \in {q \in seen_pairs : <<q[2], q[1]>> \in seen_pairs /\ q[1] # q[2]}})
      has_reciprocal == HasReciprocal(reciprocal_pairs, cluster_edges)
      mixed_sign == Cardinality(edge_signs) > 1
  IN IF cluster_edges = <<>> THEN <<>>
     ELSE IF ~(has_reciprocal \/ mixed_sign) THEN <<>>
     ELSE << [nodes |-> component,
              edges |-> {EdgeText(cluster_edges[k]) : k \in 1..Len(cluster_edges)},
              mixed_sign |-> mixed_sign,
              reciprocal |-> has_reciprocal,
              has_delayed_phase |-> \E k \in 1..Len(cluster_compiled) :
                                      cluster_compiled[k].at_tick > 0,
              reciprocal_pairs |-> reciprocal_pairs] >>

RECURSIVE _build_feedback_clusters(_)
_build_feedback_clusters(sccs) ==
  IF sccs = <<>> THEN <<>>
  ELSE FeedbackCluster(Head(sccs)) \o _build_feedback_clusters(Tail(sccs))

(* the test that keeps an edge out of immediate_only_high_weight_edges for its weight *)
LowWeightNever(edge) == FALSE

LowWeight(edge) == edge.weight < 700

(* the texts of the listed edges as a set: sorted(set(...)) without its order *)
ImmediateOnlyHighWeight(feedback_clusters) ==
  {EdgeText(edges[k]) :
     k \in {j \in 1..Len(edges) :
              LET edge == edges[j]
                  source_target_phases ==
                    SelectSeq(compiled_edges, LAMBDA compiled : compiled.source = edge.source
                                                                /\ compiled.target = edge.target)
              IN /\ source_target_phases # <<>>
                 /\ \A i \in 1..Len(source_target_phases) : source_target_phases[i].at_tick = 0
                 /\ ~LowWeight(edge)
                 /\ \E c \in 1..Len(feedback_clusters) :
                      /\ edge.source \in Elements(feedback_clusters[c].nodes)
                      /\ edge.target \in Elements(feedback_clusters[c].nodes)}}

_review_candidates(feedback_clusters) ==
  [reciprocal_edges |->
     SortedPairs(UNION {Elements(feedback_clusters[c].reciprocal_pairs) :
                          c \in 1..Len(feedback_clusters)}),
   fast_feedback_loops |->
     SelectSeq(feedback_clusters, LAMBDA cluster : ~cluster.has_delayed_phase),
   immediate_only_high_weight_edges |-> ImmediateOnlyHighWeight(feedback_clusters)]

BoundedMaxTick(tick_limit) == Max2(0, Min2(tick_limit, TIME_MAP["days"]))

build_dependency_index(tick_limit) ==
  CHOOSE index \in
    {[direct_downstream |-> _group_direct_neighbors(adj, "target"),
      direct_upstream |-> _group_direct_neighbors(rev_adj, "source"),
      multi_hop_downstream |-> _group_reachability(adj, BoundedMaxTick(tick_limit), "target"),
      multi_hop_upstream |-> _group_reachability(rev_adj, BoundedMaxTick(tick_limit), "source"),
      sccs |-> sccs,
      feedback_clusters |-> feedback_clusters,
      review_candidates |-> _review_candidates(feedback_clusters)] :
       sccs \in {_strongly_connected_components(_logical_adjacency)},
       feedback_clusters \in
         {_build_feedback_clusters(_strongly_connected_components(_logical_adjacency))}} : TRUE

(* logical edges for the audit: cycles, reciprocal pairs, a self-loop, parallel edges,
   delayed phases, phase weights *)
IndexCatalogue ==
  << Edge(1, 2, "increases"),
     [Edge(2, 1, "decreases") EXCEPT !.delay = "hours"],
     Edge(2, 3, "increases"),
     [Edge(3, 1, "enables") EXCEPT !.weight = 500],
     Edge(3, 3, "decreases"),
     WithProfile(Edge(3, 4, "increases"),
                 <<EdgePhase("minutes"), Phase("days", "decreases", 200)>>),
     [Edge(4, 3, "causes") EXCEPT !.delay = "minutes"],
     Edge(2, 1, "increases"),
     [Edge(1, 4, "increases") EXCEPT !.delay = "days"],
     WithProfile(Edge(4, 3, "decreases"), <<Phase("immediate", "decreases", 200)>>) >>

IndexGraphs == SubLists(IndexCatalogue, MaxEdges)

ConstructIndex == ConstructWith(IndexGraphs)

(* a caller invokes engine.build_dependency_index(max_tick); last keeps the argument *)
BuildIndex ==
  /\ pc = "idle"
  /\ \E tick_limit \in (0 - 1)..4 :
       /\ response' = build_dependency_index(tick_limit)
       /\ last' = [node |-> 0, tick |-> tick_limit, outcome |-> "index", deliveries |-> <<>>]
  /\ pc' = "indexed"
  /\ UNCHANGED <<nodes, edges, compiled_edges, adj, rev_adj, latest_node_states, request,
                 max_tick, tick, influence_buffer, node_states, state_order, node_activity,
                 traces, propagated_directions, nodes_to_resolve, queued_nodes, hist>>

NextIndex == ConstructIndex \/ BuildIndex

IndexSpec == Init /\ [][NextIndex]_vars

Far == TIME_MAP["days"] * (Cardinality(NodeIds) + 1)

(* least sum of at_tick over the compiled-phase paths of at most k phases from s, along
   the edges (from = "source", to = "target") or against them *)
RECURSIVE LeastTicks(_, _, _, _)
LeastTicks(s, k, from, to) ==
  IF k = 0 THEN [v \in NodeIds |-> IF v = s THEN 0 ELSE Far]
  ELSE CHOOSE d \in
         {[v \in NodeIds |->
             LET via == {prev[compiled_edges[i][from]] + compiled_edges[i].at_tick :
                           i \in {j \in 1..Len(compiled_edges) : compiled_edges[j][to] = v}}
                 all == via \cup {prev[v]}
             IN CHOOSE m \in all : \A x \in all : m <= x] :
            prev \in {LeastTicks(s, k - 1, from, to)}} : TRUE

ReachabilityOk(grouped, from, to) ==
  \A s \in NodeIds :
    \A least \in {LeastTicks(s, Cardinality(NodeIds), from, to)} :
      \A timescale \in DOMAIN TIME_MAP :
        /\ s \notin Elements(grouped[s][timescale])
        /\ \A v \in NodeIds \ {s} :
             v \in Elements(grouped[s][timescale])
               <=> (least[v] = TickOfWindow(timescale)
                      /\ least[v] <= Max2(0, Min2(last.tick, 3)))

(* C23: multi-hop reachability.  v # s is listed in multi_hop_downstream[s] under the
   timescale of tick d iff d is the least sum of at_tick over the compiled-phase paths from
   s to v and d <= max_tick clamped to 0..3; s is never listed for itself, and
   multi_hop_upstream is the same on reversed edges. *)
C23_Reachability ==
  pc = "indexed" =>
    /\ ReachabilityOk(response.multi_hop_downstream, "source", "target")
    /\ ReachabilityOk(response.multi_hop_upstream, "target", "source")

(* a start node s on a cycle through v, with a minutes phase and a days phase from s to
   v: v is listed for s once, under minutes *)
C23_Witness ==
  /\ pc = "indexed"
  /\ last.tick >= 3
  /\ \E s \in NodeIds : \E v \in NodeIds \ {s} :
       /\ v \in Elements(response.multi_hop_downstream[s]["minutes"])
       /\ \E i \in 1..Len(compiled_edges) :
            /\ compiled_edges[i].source = s /\ compiled_edges[i].target = v
            /\ compiled_edges[i].at_tick = 3
       /\ \E timescale \in DOMAIN TIME_MAP :
            s \in Elements(response.multi_hop_downstream[v][timescale])

(* the pairs (a, b) joined by a path of at least one and at most k + 1 of the pairs R *)
RECURSIVE PathPairs(_, _)
PathPairs(R, k) ==
  IF k = 0 THEN R
  ELSE CHOOSE S \in {P \cup {<<pq[1][1], pq[2][2]>> :
                               pq \in {x \in P \X R : x[1][2] = x[2][1]}} :
                     P \in {PathPairs(R, k - 1)}} : TRUE

LogicalPairs == {<<edges[k].source, edges[k].target>> : k \in 1..Len(edges)}

(* the maximal strongly connected sets of the logical edges that hold a cycle: more than
   one node, or one node with a self-loop *)
CyclicComponents ==
  LET reach == PathPairs(LogicalPairs, Cardinality(NodeIds))
  IN {{m \in NodeIds : m = n \/ (<<n, m>> \in reach /\ <<m, n>> \in reach)} :
        n \in {x \in NodeIds : <<x, x>> \in reach}}

Ascending(list) == \A i \in 1..Len(list) : \A j \in 1..Len(list) : i < j => list[i] < list[j]

(* a comes before b in Python's order of lists *)
ListBefore(a, b) ==
  \/ \E p \in 1..Min2(Len(a), Len(b)) :
       /\ a[p] < b[p]
       /\ \A q \in 1..(p - 1) : a[q] = b[q]
  \/ /\ Len(a) < Len(b)
     /\ \A q \in 1..Len(a) : a[q] = b[q]

(* C24: sccs holds exactly the maximal strongly connected components of the logical
   adjacency that have more than one node or a self-loop, each once, as a sorted list of
   its nodes, and the list is ordered by (size, nodes). *)
C24_Sccs ==
  pc = "indexed" =>
    \A sccs \in {response.sccs} :
      /\ {Elements(sccs[k]) : k \in 1..Len(sccs)} = CyclicComponents
      /\ Len(sccs) = Cardinality(CyclicComponents)
      /\ \A k \in 1..Len(sccs) : Ascending(sccs[k])
      /\ \A i \in 1..Len(sccs) : \A j \in 1..Len(sccs) :
           i < j => /\ Elements(sccs[i]) \cap Elements(sccs[j]) = {}
                    /\ \/ Len(sccs[i]) < Len(sccs[j])
                       \/ Len(sccs[i]) = Len(sccs[j]) /\ ListBefore(sccs[i], sccs[j])

(* a self-loop component of a higher node listed before a component of two or more
   nodes *)
C24_Witness ==
  /\ pc = "indexed"
  /\ Len(response.sccs) >= 2
  /\ Len(response.sccs[1]) = 1
  /\ Len(response.sccs[2]) >= 2
  /\ response.sccs[1][1] > response.sccs[2][1]

(* the logical edges between two nodes of S *)
InducedEdges(S) == {k \in 1..Len(edges) : edges[k].source \in S /\ edges[k].target \in S}

MixedSign(S) ==
  /\ \E k \in InducedEdges(S) : edges[k].rel \in POSITIVE_RELATIONS
  /\ \E k \in InducedEdges(S) : edges[k].rel = "decreases"

(* a reciprocal pair, or with i = j a self-loop *)
ReciprocalOrLoop(S) ==
  \E i \in InducedEdges(S) : \E j \in InducedEdges(S) :
    edges[i].source = edges[j].target /\ edges[i].target = edges[j].source

DelayedPhase(S) ==
  \E k \in 1..Len(compiled_edges) :
    /\ compiled_edges[k].source \in S
    /\ compiled_edges[k].target \in S
    /\ compiled_edges[k].at_tick > 0

(* C25: a reported SCC appears in feedback_clusters, once, iff its induced logical edges
   are of mixed sign or hold a reciprocal pair or a self-loop; mixed_sign and reciprocal
   report those two conditions, and has_delayed_phase holds iff some compiled phase between
   two nodes of the cluster has at_tick > 0. *)
C25_FeedbackClusters ==
  pc = "indexed" =>
    \A clusters \in {response.feedback_clusters} : \A sccs \in {response.sccs} :
      /\ \A k \in 1..Len(sccs) :
           (\E c \in 1..Len(clusters) : clusters[c].nodes = sccs[k])
             <=> (MixedSign(Elements(sccs[k])) \/ ReciprocalOrLoop(Elements(sccs[k])))
      /\ \A c \in 1..Len(clusters) :
           /\ \E k \in 1..Len(sccs) : clusters[c].nodes = sccs[k]
           /\ \A d \in 1..Len(clusters) : clusters[d].nodes = clusters[c].nodes => d = c
           /\ clusters[c].mixed_sign <=> MixedSign(Elements(clusters[c].nodes))
           /\ clusters[c].reciprocal <=> ReciprocalOrLoop(Elements(clusters[c].nodes))
           /\ clusters[c].has_delayed_phase <=> DelayedPhase(Elements(clusters[c].nodes))

(* a cluster of mixed sign without a reciprocal pair, with a delayed phase *)
C25_Witness ==
  /\ pc = "indexed"
  /\ \E c \in 1..Len(response.feedback_clusters) :
       /\ response.feedback_clusters[c].mixed_sign
       /\ ~response.feedback_clusters[c].reciprocal
       /\ response.feedback_clusters[c].has_delayed_phase

(* a reported SCC that is no feedback cluster: a cycle of positive edges *)
C25_WitnessPassedOver ==
  /\ pc = "indexed"
  /\ \E k \in 1..Len(response.sccs) :
       \A c \in 1..Len(response.feedback_clusters) :
         response.feedback_clusters[c].nodes # response.sccs[k]

(* a cluster for its self-loop alone, without a delayed phase *)
C25_WitnessSelfLoop ==
  /\ pc = "indexed"
  /\ \E c \in 1..Len(response.feedback_clusters) :
       /\ Len(response.feedback_clusters[c].nodes) = 1
       /\ ~response.feedback_clusters[c].mixed_sign
       /\ response.feedback_clusters[c].reciprocal
       /\ ~response.feedback_clusters[c].has_delayed_phase

(* the compiled phases of one logical edge *)
OwnPhases(edge) == _compile_edges(<<edge>>)

(* the compiled phases from the source to the target of the edge, of any logical edge *)
PhasesBetween(edge) ==
  SelectSeq(compiled_edges, LAMBDA compiled : compiled.source = edge.source
                                              /\ compiled.target = edge.target)

WithinCluster(edge) ==
  \E c \in 1..Len(response.feedback_clusters) :
    /\ edge.source \in Elements(response.feedback_clusters[c].nodes)
    /\ edge.target \in Elements(response.feedback_clusters[c].nodes)

(* pairs (a, b), a < b, with a logical edge each way *)
ReciprocalPairs ==
  {p \in NodeIds \X NodeIds :
     /\ p[1] < p[2]
     /\ <<p[1], p[2]>> \in LogicalPairs
     /\ <<p[2], p[1]>> \in LogicalPairs}

(* fast_feedback_loops is the feedback clusters without a delayed phase, in their order,
   and reciprocal_edges the sorted reciprocal pairs of the clusters *)
LoopsAndPairsOk ==
  \A review \in {response.review_candidates} :
    /\ review.fast_feedback_loops
         = SelectSeq(response.feedback_clusters, LAMBDA cluster : ~cluster.has_delayed_phase)
    /\ Elements(review.reciprocal_edges)
         = UNION {Elements(response.feedback_clusters[c].reciprocal_pairs) :
                    c \in 1..Len(response.feedback_clusters)}
    /\ Elements(review.reciprocal_edges) = ReciprocalPairs
    /\ review.reciprocal_edges = SortedPairs(ReciprocalPairs)

(* C26 as stated: a logical edge is listed in immediate_only_high_weight_edges iff all of
   its compiled phases have at_tick = 0 and weight >= 0.7 and both endpoints lie within one
   feedback cluster; fast_feedback_loops and reciprocal_edges are as described. *)
C26_AllPhasesHighWeight ==
  pc = "indexed" =>
    /\ LoopsAndPairsOk
    /\ \A k \in 1..Len(edges) :
         EdgeText(edges[k]) \in response.review_candidates.immediate_only_high_weight_edges
           <=> /\ \A i \in 1..Len(OwnPhases(edges[k])) :
                    /\ OwnPhases(edges[k])[i].at_tick = 0
                    /\ OwnPhases(edges[k])[i].weight >= 700
               /\ WithinCluster(edges[k])

(* C26 amended: a logical edge is listed iff every compiled phase from its source to its
   target, its own or a parallel edge's, has at_tick = 0, the weight of the edge itself is
   >= 0.7 whatever the weights of its phases, and both endpoints lie within one feedback
   cluster; fast_feedback_loops and reciprocal_edges are as described. *)
C26_ReviewCandidates ==
  pc = "indexed" =>
    /\ LoopsAndPairsOk
    /\ \A k \in 1..Len(edges) :
         EdgeText(edges[k]) \in response.review_candidates.immediate_only_high_weight_edges
           <=> /\ \A i \in 1..Len(PhasesBetween(edges[k])) :
                    PhasesBetween(edges[k])[i].at_tick = 0
               /\ edges[k].weight >= 700
               /\ WithinCluster(edges[k])
    /\ \A text \in response.review_candidates.immediate_only_high_weight_edges :
         \E k \in 1..Len(edges) : EdgeText(edges[k]) = text

(* a listed edge whose only phase has weight 0.2, next to a fast feedback loop or a
   reciprocal pair *)
C26_Witness ==
  /\ pc = "indexed"
  /\ \E k \in 1..Len(edges) :
       /\ EdgeText(edges[k]) \in response.review_candidates.immediate_only_high_weight_edges
       /\ \E i \in 1..Len(OwnPhases(edges[k])) : OwnPhases(edges[k])[i].weight < 700
  /\ response.review_candidates.reciprocal_edges # <<>>

(* an immediate edge of full weight in a cluster that is not listed because a parallel
   edge is delayed *)
C26_WitnessParallel ==
  /\ pc = "indexed"
  /\ \E k \in 1..Len(edges) :
       /\ EdgeText(edges[k]) \notin response.review_candidates.immediate_only_high_weight_edges
       /\ \A i \in 1..Len(OwnPhases(edges[k])) :
            /\ OwnPhases(edges[k])[i].at_tick = 0
            /\ OwnPhases(edges[k])[i].weight >= 700
       /\ WithinCluster(edges[k])

(* a fast feedback loop: a cluster without a delayed phase *)
C26_WitnessFast ==
  /\ pc = "indexed"
  /\ response.review_candidates.fast_feedback_loops # <<>>
  /\ Len(response.review_candidates.fast_feedback_loops) < Len(response.feedback_clusters)

(* ------------------------------------------------------------------------------------ *)
(* The HTTP handlers of api.py: simulate, compare_simulations and reload_graph, each a
   coroutine on the server's event loop.  nodes and edges are the module globals of
   api.py; last holds the other globals (rules, engine), loader.syndromes, the number of
   load_all calls so far and the coroutine that holds the event loop; request holds the
   coroutines, one per HTTP request.  A load is named by its number: what load_all
   returns on its k-th call is k, and an engine records which load each of its parts
   came from. *)

MaxRequests == 3

HttpRequests == 1..MaxRequests

NoTask == [kind |-> "none", at |-> "none", loaded |-> 0, ran |-> <<>>]

(* ReasoningEngine.__init__ keeps nodes, edges and syndromes and compiles the edges *)
ReasoningEngine(node_load, edge_load, syndrome_load) ==
  [nodes |-> node_load, edges |-> edge_load, compiled_edges |-> edge_load,
   syndromes |-> syndrome_load]

(* the module is imported: one load_all and one engine *)
ApiInit ==
  /\ nodes = 1
  /\ edges = 1
  /\ compiled_edges = <<>>
  /\ adj = <<>>
  /\ rev_adj = <<>>
  /\ latest_node_states = <<>>
  /\ request = [t \in HttpRequests |-> NoTask]
  /\ pc = "serving"
  /\ max_tick = 0
  /\ tick = 0
  /\ influence_buffer = EmptyBuffer
  /\ node_states = EmptyDicts
  /\ state_order = <<>>
  /\ node_activity = EmptyDicts
  /\ traces = [n \in NodeIds |-> <<>>]
  /\ propagated_directions = [n \in NodeIds |-> [t \in Ticks |-> {}]]
  /\ nodes_to_resolve = <<>>
  /\ queued_nodes = {}
  /\ response = NoResponse
  /\ last = [rules |-> 1,
             engine |-> ReasoningEngine(1, 1, 1),
             syndromes |-> 1, loads |-> 1, running |-> 0]
  /\ hist = <<>>

ApiUnchanged ==
  UNCHANGED <<compiled_edges, adj, rev_adj, latest_node_states, pc, max_tick, tick,
              influence_buffer, node_states, state_order, node_activity, traces,
              propagated_directions, nodes_to_resolve, queued_nodes, response, hist>>

(* the event loop runs a coroutine from its first statement until it awaits or returns;
   the handlers await nothing, so the loop is free or held by the task itself *)
MayRunPreempted(t) == TRUE

MayRun(t) == last.running \in {0, t}

(* a request arrives and its coroutine is scheduled *)
Arrive ==
  /\ \E t \in HttpRequests, kind \in {"simulate", "compare", "reload"} :
       /\ request[t].kind = "none"
       /\ request' = [request EXCEPT ![t] = [NoTask EXCEPT !.kind = kind, !.at = "load_all"]]
  /\ UNCHANGED <<nodes, edges, last>>
  /\ ApiUnchanged

(* loader.load_all(): the loader drops what it held and reads the packs; a pack that
   does not validate raises after the loader has taken the new syndromes, the handler
   answers with an error and the globals stay *)
LoadAll ==
  /\ \E t \in HttpRequests, fails \in BOOLEAN :
       /\ request[t].at = "load_all"
       /\ MayRun(t)
       /\ request' = [request EXCEPT ![t].at = IF fails THEN "failed" ELSE "store_nodes",
                                     ![t].loaded = last.loads + 1]
       /\ last' = [last EXCEPT !.loads = last.loads + 1,
                               !.syndromes = last.loads + 1,
                               !.running = IF fails THEN 0 ELSE t]
  /\ UNCHANGED <<nodes, edges>>
  /\ ApiUnchanged

(* nodes, edges, rules = ...: three stores to the globals *)
StoreNodes ==
  /\ \E t \in HttpRequests :
       /\ request[t].at = "store_nodes"
       /\ MayRun(t)
       /\ nodes' = request[t].loaded
       /\ request' = [request EXCEPT ![t].at = "store_edges"]
  /\ UNCHANGED <<edges, last>>
  /\ ApiUnchanged

StoreEdges ==
  /\ \E t \in HttpRequests :
       /\ request[t].at = "store_edges"
       /\ MayRun(t)
       /\ edges' = request[t].loaded
       /\ request' = [request EXCEPT ![t].at = "store_rules"]
  /\ UNCHANGED <<nodes, last>>
  /\ ApiUnchanged

StoreRules ==
  /\ \E t \in HttpRequests :
       /\ request[t].at = "store_rules"
       /\ MayRun(t)
       /\ last' = [last EXCEPT !.rules = request[t].loaded]
       /\ request' = [request EXCEPT ![t].at = "construct"]
  /\ UNCHANGED <<nodes, edges>>
  /\ ApiUnchanged

(* engine = ReasoningEngine(nodes, edges, loader.syndromes), from the globals as they are;
   reload_graph returns after it *)
_reload_engine_state ==
  /\ \E t \in HttpRequests :
       /\ request[t].at = "construct"
       /\ MayRun(t)
       /\ last' = [last EXCEPT !.engine = ReasoningEngine(nodes, edges, last.syndromes),
                               !.running = IF request[t].kind = "reload" THEN 0 ELSE t]
       /\ request' = [request EXCEPT ![t].at = CASE request[t].kind = "simulate" -> "simulate"
                                                 [] request[t].kind = "compare" -> "baseline"
                                                 [] OTHER -> "done"]
  /\ UNCHANGED <<nodes, edges>>
  /\ ApiUnchanged

(* result = engine.simulate(...): the global engine is read and the run, which has no
   suspension point, uses that object to its end; ran keeps the engine of each run *)
simulate ==
  /\ \E t \in HttpRequests :
       /\ request[t].at = "simulate"
       /\ MayRun(t)
       /\ request' = [request EXCEPT ![t].at = "done", ![t].ran = <<last.engine>>]
       /\ last' = [last EXCEPT !.running = 0]
  /\ UNCHANGED <<nodes, edges>>
  /\ ApiUnchanged

(* baseline_res = engine.simulate(baseline_request) *)
CompareBaseline ==
  /\ \E t \in HttpRequests :
       /\ request[t].at = "baseline"
       /\ MayRun(t)
       /\ request' = [request EXCEPT ![t].at = "intervention", ![t].ran = <<last.engine>>]
  /\ UNCHANGED <<nodes, edges, last>>
  /\ ApiUnchanged

(* intervention_res = engine.simulate(intervention_request): the global is read again *)
CompareIntervention ==
  /\ \E t \in HttpRequests :
       /\ request[t].at = "intervention"
       /\ MayRun(t)
       /\ request' = [request EXCEPT ![t].at = "done",
                                     ![t].ran = Append(request[t].ran, last.engine)]
       /\ last' = [last EXCEPT !.running = 0]
  /\ UNCHANGED <<nodes, edges>>
  /\ ApiUnchanged

NextApi ==
  \/ Arrive
  \/ LoadAll
  \/ StoreNodes
  \/ StoreEdges
  \/ StoreRules
  \/ _reload_engine_state
  \/ simulate
  \/ CompareBaseline
  \/ CompareIntervention

ApiSpec == ApiInit /\ [][NextApi]_vars

SingleLoad(engine) ==
  /\ engine.nodes = engine.edges
  /\ engine.edges = engine.compiled_edges
  /\ engine.compiled_edges = engine.syndromes

(* C27: with simulate, compare and reload requests in any interleaving the event loop
   allows, every simulation runs against one engine whose nodes, edges, compiled edges and
   syndromes come from a single load, and the two simulations of one compare request use
   the same engine. *)
C27_Snapshot ==
  pc = "serving" =>
    \A t \in HttpRequests :
      /\ \A k \in 1..Len(request[t].ran) : SingleLoad(request[t].ran[k])
      /\ \A j \in 1..Len(request[t].ran) : \A k \in 1..Len(request[t].ran) :
           request[t].ran[j] = request[t].ran[k]

(* a compare request has run both of its simulations after an earlier simulation ran on
   an earlier load, and a third request met a load that failed or waits for the loop *)
C27_Witness ==
  /\ pc = "serving"
  /\ \E t \in HttpRequests : \E u \in HttpRequests : \E w \in HttpRequests :
       /\ request[t].kind = "compare"
       /\ Len(request[t].ran) = 2
       /\ request[u].kind = "simulate"
       /\ Len(request[u].ran) = 1
       /\ request[u].ran[1].nodes < request[t].ran[1].nodes
       /\ request[w].at \in {"failed", "load_all"}

(* ------------------------------------------------------------------------------------ *)
(* Graphs in which a bucket is resolved more than once within a tick: node 2 is reached
   from node 1 and then again from node 3, with the same or the opposite direction, at the
   same or a higher priority; node 2 fans out to node 4 and back into node 1 *)
ReentryCatalogue ==
  << Edge(1, 2, "increases"),
     Edge(3, 2, "decreases"),
     [Edge(3, 2, "decreases") EXCEPT !.priority = "high", !.weight = 500],
     [Edge(3, 2, "decreases") EXCEPT !.weight = 960],
     [Edge(3, 2, "decreases") EXCEPT !.weight = 500],
     Edge(2, 4, "increases"),
     Edge(2, 1, "decreases"),
     [Edge(2, 4, "increases") EXCEPT !.delay = "minutes"] >>

ReentryPerturbations ==
  << [node_id |-> 1, op |-> "increase"],
     [node_id |-> 3, op |-> "increase"],
     [node_id |-> 2, op |-> "block"],
     [node_id |-> 1, op |-> "increase"] >>

ReentryGraphs == SubLists(ReentryCatalogue, MaxEdges)

ReentryRequests ==
  {[perturbations |-> p, context |-> <<>>,
    options |-> [SimulationOptions EXCEPT !.max_hops = h]] :
     p \in SubLists(ReentryPerturbations, MaxPerturbations), h \in {1, MaxHops + 1}}

ConstructReentry == ConstructWith(ReentryGraphs)

CallReentry == CallWith(ReentryRequests)

NextReentry ==
  ConstructReentry \/ CallReentry \/ Seed \/ BeginTick \/ ResolveStep \/ EndTick
  \/ BuildResponse

ReentrySpec == Init /\ [][NextReentry]_vars

(* what the loop records for a bucket if it resolves the list once, as a whole *)
RecordedFor(bucket, node_id, t) ==
  LET res == _resolve_influence(bucket, node_id, t)
  IN IF res.resolved = <<>> THEN <<>>
     ELSE IF res.resolved[1].effect_size < request.options.min_effect_size THEN <<>>
     ELSE res.resolved

(* C28: resolution is a function of the bucket.  When simulate returns, the state recorded
   for every (node, tick) is the resolver's output on the complete list of influences
   delivered to that bucket, and no state is recorded for a bucket whose complete list
   resolves to nothing or to an effect_size below min_effect_size. *)
C28_FunctionOfBucket ==
  pc = "done" =>
    \A n \in NodeIds : \A t \in Ticks :
      \A recorded \in {RecordedFor(influence_buffer[n][t], n, t)} :
        IF recorded = <<>> THEN t \notin DOMAIN node_states[n]
        ELSE t \in DOMAIN node_states[n] /\ node_states[n][t] = recorded[1]

(* simulate has returned a state for a node whose bucket, taken as a whole, is balanced:
   the state of its first resolution, before the opposing influence arrived *)
C28_Differs ==
  /\ pc = "done"
  /\ \E n \in NodeIds :
       /\ 0 \in DOMAIN node_states[n]
       /\ Len(influence_buffer[n][0]) = 2
       /\ _resolve_influence(influence_buffer[n][0], n, 0) = NoResolution
       /\ \E i \in 1..Len(response.affected_nodes) : response.affected_nodes[i].node_id = n

(* the same for a bucket that, taken as a whole, resolves below min_effect_size *)
C28_DiffersBelowMin ==
  /\ pc = "done"
  /\ \E n \in NodeIds :
       /\ 0 \in DOMAIN node_states[n]
       /\ \E res \in {_resolve_influence(influence_buffer[n][0], n, 0)} :
            /\ res.resolved # <<>>
            /\ res.resolved[1].effect_size < request.options.min_effect_size

(* C29: propagation memo.  Within one simulation a loop iteration appends influences to
   influence_buffer only when the direction it resolved for (node, tick) is not yet in
   propagated_directions[node][tick], and it adds that direction; the memo never loses a
   direction, so a node fans out at most once per (node, tick, direction), a later
   resolution with a direction already propagated appends nothing, and each (node, tick)
   fans out at most twice. *)
C29_Memo ==
  [][(pc = "loop" /\ nodes_to_resolve # <<>>) =>
       \A n \in {Head(nodes_to_resolve)} :
         /\ (influence_buffer' # influence_buffer \/ last'.outcome = "fan_out") =>
              /\ tick \in DOMAIN node_states'[n]
              /\ node_states'[n][tick].direction \notin propagated_directions[n][tick]
              /\ propagated_directions'[n][tick]
                   = propagated_directions[n][tick] \cup {node_states'[n][tick].direction}
         /\ \A m \in NodeIds : \A t \in Ticks :
              /\ propagated_directions[m][t] \subseteq propagated_directions'[m][t]
              /\ m # n \/ t # tick => propagated_directions'[m][t] = propagated_directions[m][t]
              /\ Cardinality(propagated_directions'[m][t]) <= 2]_vars

(* a node with outgoing edges has just been resolved again, within max_hops, to a new
   state of a direction it had propagated before, and delivered nothing *)
C29_Witness ==
  /\ pc = "loop"
  /\ last.outcome = "written"
  /\ last.deliveries = <<>>
  /\ Outgoing(adj, last.node) # <<>>
  /\ node_states[last.node][last.tick].direction
       \in propagated_directions[last.node][last.tick]
  /\ _resolve_influence(influence_buffer[last.node][last.tick], last.node, last.tick).dominant_hops
       < request.options.max_hops

(* a node has fanned out twice at one tick, once in each direction *)
C29_WitnessTwice ==
  /\ pc = "loop"
  /\ last.outcome = "fan_out"
  /\ last.deliveries # <<>>
  /\ propagated_directions[last.node][last.tick] = {"up", "down"}

(* the direction all user perturbations of node n share: "up" when all are increase,
   "down" when all are decrease or block, "none" otherwise or without a perturbation *)
ManualDirection(n) ==
  LET ops == {request.perturbations[i].op :
                i \in {j \in 1..Len(request.perturbations) :
                         request.perturbations[j].node_id = n}}
  IN IF ops = {} THEN "none"
     ELSE IF ops = {"increase"} THEN "up"
     ELSE IF ops \subseteq {"decrease", "block"} THEN "down"
     ELSE "none"

(* the loop has resolved (n, 0) at least once: tick 0 is under way and n, which was seeded,
   has left the ready list, or tick 0 is over *)
ResolvedOnce(n) ==
  \/ pc = "loop" /\ tick = 0 /\ n \notin Elements(nodes_to_resolve)
  \/ pc \in {"tick", "loop"} /\ tick > 0
  \/ pc = "done"

(* C30: manual perturbations dominate at tick 0.  If all user perturbations of a known
   node n have the same direction and min_effect_size <= 1, then from the first resolution
   of (n, 0) until simulate returns node_states[n][0] has that direction with confidence
   1.0 and effect_size 1.0, whatever the edges deliver to (n, 0), and n is reported in
   affected_nodes with that direction. *)
C30_ManualDominates ==
  \A n \in NodeIds :
    (/\ pc \in {"tick", "loop", "done"}
     /\ n \in DOMAIN nodes
     /\ ManualDirection(n) \in {"up", "down"}
     /\ request.options.min_effect_size <= One)
    => /\ ResolvedOnce(n) => 0 \in DOMAIN node_states[n]
       /\ 0 \in DOMAIN node_states[n] =>
            /\ node_states[n][0].direction = ManualDirection(n)
            /\ node_states[n][0].confidence = One
            /\ node_states[n][0].effect_size = One
       /\ pc = "done" =>
            \E i \in 1..Len(response.affected_nodes) :
              /\ response.affected_nodes[i].node_id = n
              /\ response.affected_nodes[i].direction = ManualDirection(n)
              /\ \A j \in 1..Len(response.affected_nodes) :
                   response.affected_nodes[j].node_id = n => j = i

(* simulate has returned and an edge has delivered to a perturbed node, at tick 0, an
   influence against the direction of its perturbations *)
C30_Witness ==
  /\ pc = "done"
  /\ \E n \in NodeIds :
       /\ ManualDirection(n) \in {"up", "down"}
       /\ \E i \in 1..Len(influence_buffer[n][0]) :
            /\ influence_buffer[n][0][i].priority # "ultra"
            /\ influence_buffer[n][0][i].direction # ManualDirection(n)

(* the same through a feedback cycle: the opposing influence has the node on its path *)
C30_WitnessCycle ==
  /\ pc = "done"
  /\ \E n \in NodeIds :
       /\ ManualDirection(n) \in {"up", "down"}
       /\ \E i \in 1..Len(influence_buffer[n][0]) :
            /\ influence_buffer[n][0][i].direction # ManualDirection(n)
            /\ Len(influence_buffer[n][0][i].path) = 3
            /\ influence_buffer[n][0][i].path[1] = n

(* ------------------------------------------------------------------------------------ *)
(* Secondary trace branches.  Besides the simulations of the re-entry graphs, the
   resolver is applied to buckets of node 2 of up to MaxBucket influences, and the
   branches it returns are emitted along some outgoing edges of node 2 into an empty
   trace store; last keeps the inputs, response the resolver's result. *)
MaxBucket == 5

Influence(direction, confidence, effect_size, priority, path) ==
  [direction |-> direction, confidence |-> confidence, effect_size |-> effect_size,
   priority |-> priority, path |-> path,
   steps |-> [k \in 1..(Len(path) - 1) |-> <<path[k], path[k + 1]>>]]

InfluenceCatalogue ==
  << Influence("up", 1000, 1000, "medium", <<1, 2>>),
     Influence("up", 800, 600, "medium", <<3, 2>>),
     Influence("down", 900, 500, "medium", <<4, 2>>),
     Influence("down", 700, 400, "medium", <<1, 3, 2>>),
     Influence("up", 600, 300, "medium", <<1, 4, 2>>),
     Influence("up", 1000, 1000, "medium", <<1, 2>>),
     Influence("down", 100, 200, "low", <<4, 3, 2>>),
     Influence("down", 130, 450, "medium", <<3, 4, 2>>) >>

Buckets == SubLists(InfluenceCatalogue, MaxBucket)

BranchEdges ==
  SubLists(_compile_edges(<< Edge(2, 4, "increases"),
                             [Edge(2, 3, "decreases") EXCEPT !.context = ("ckd" :> TRUE)],
                             Edge(2, 1, "increases") >>), 3)

BranchUnchanged ==
  UNCHANGED <<nodes, edges, compiled_edges, adj, rev_adj, latest_node_states, max_tick, tick,
              influence_buffer, node_states, state_order, node_activity,
              propagated_directions, nodes_to_resolve, queued_nodes, hist>>

(* _resolve_influence(influence_buffer[2][0], 2, 0) *)
ResolveBucket ==
  /\ pc = "new"
  /\ \E bucket \in Buckets, outgoing_edges \in BranchEdges, context \in ContextChoices,
        min_confidence \in {100, 500} :
       /\ last' = [node |-> 2, tick |-> 0, outcome |-> "resolved", deliveries |-> <<>>,
                   bucket |-> bucket, outgoing_edges |-> outgoing_edges]
       /\ request' = [NoRequest EXCEPT !.context = context,
                                       !.options.min_confidence = min_confidence]
       /\ response' = _resolve_influence(bucket, 2, 0)
  /\ pc' = "resolved"
  /\ UNCHANGED traces
  /\ BranchUnchanged

(* simulate, lines 116-124: every branch is emitted along the outgoing edges *)
EmitBranches ==
  /\ pc = "resolved"
  /\ traces' = EmitAllBranches(traces, last.node, response.trace_only_branches,
                               last.outgoing_edges, request.context,
                               request.options.min_confidence)
  /\ pc' = "emitted"
  /\ UNCHANGED <<last, request, response>>
  /\ BranchUnchanged

NextBranch == NextReentry \/ ResolveBucket \/ EmitBranches

BranchSpec == Init /\ [][NextBranch]_vars

(* the branches of a resolution: at most three, each taken from an influence of the top
   tier other than the dominant one with its confidence times 0.7, no two with the same
   (direction, path) *)
BranchesOk(bucket, res) ==
  \A branches \in {res.trace_only_branches} :
    /\ Len(branches) <= 3
    /\ \A j \in 1..Len(branches) : \A k \in 1..Len(branches) :
         (branches[j].direction = branches[k].direction /\ branches[j].path = branches[k].path)
           => j = k
    /\ \A k \in 1..Len(branches) :
         \E i \in Elements(TopIndexes(bucket)) \ {res.dominant} :
           /\ branches[k].direction = bucket[i].direction
           /\ branches[k].path = bucket[i].path
           /\ branches[k].steps = bucket[i].steps
           /\ branches[k].effect_size = bucket[i].effect_size
           /\ branches[k].confidence = Mul(bucket[i].confidence, 700)

(* every trace in the store was written for a branch and an outgoing edge whose context
   matches, with 0.7 * 0.7 times the confidence of the influence, at least min_confidence *)
EmittedOk ==
  \A n \in NodeIds : \A k \in 1..Len(traces[n]) :
    \E i \in Elements(TopIndexes(last.bucket)) \ {response.dominant} :
      \E e \in 1..Len(last.outgoing_edges) :
        /\ last.outgoing_edges[e].target = n
        /\ _context_matches(last.outgoing_edges[e], request.context)
        /\ traces[n][k].path = Append(last.bucket[i].path, n)
        /\ Len(traces[n][k].steps) = Len(last.bucket[i].steps) + 1
        /\ traces[n][k].confidence = Mul(Mul(last.bucket[i].confidence, 700), 700)
        /\ traces[n][k].confidence >= request.options.min_confidence

(* C31: secondary trace branches touch traces only.  A resolution yields at most 3
   branches, none of them the dominant influence and no two with the same (direction,
   path); every trace they write has 0.7 * 0.7 times the confidence of the originating
   influence and is written only if that is at least min_confidence; and a loop iteration
   that emits branches without fanning out leaves influence_buffer, propagated_directions
   and the other nodes' states and activity alone and only pops the ready queue. *)
C31_TraceOnly ==
  /\ [](pc \in {"resolved", "emitted"} => BranchesOk(last.bucket, response))
  /\ [](pc = "emitted" => EmittedOk)
  /\ [](pc = "loop" =>
          \A n \in NodeIds : \A t \in Ticks :
            BranchesOk(influence_buffer[n][t], _resolve_influence(influence_buffer[n][t], n, t)))
  /\ [][(pc = "loop" /\ nodes_to_resolve # <<>> /\ last'.outcome = "written") =>
          /\ influence_buffer' = influence_buffer
          /\ propagated_directions' = propagated_directions
          /\ nodes_to_resolve' = Tail(nodes_to_resolve)
          /\ queued_nodes' = queued_nodes \ {Head(nodes_to_resolve)}
          /\ \A m \in NodeIds \ {Head(nodes_to_resolve)} :
               /\ node_states'[m] = node_states[m]
               /\ node_activity'[m] = node_activity[m]]_vars

(* a resolution with more than four distinct candidates returned three branches, and two
   of them were written as traces while one fell below min_confidence or met no edge *)
C31_Witness ==
  /\ pc = "emitted"
  /\ Len(last.bucket) = MaxBucket
  /\ Len(response.trace_only_branches) = 3
  /\ \E n \in NodeIds : Len(traces[n]) = 2

(* within a simulation: a loop iteration wrote a state without fanning out and left a
   trace whose path was never delivered as an influence *)
C31_WitnessLoop ==
  /\ pc = "loop"
  /\ last.outcome = "written"
  /\ \E n \in NodeIds : \E k \in 1..Len(traces[n]) :
       /\ Len(traces[n][k].path) >= 2
       /\ traces[n][k].path[Len(traces[n][k].path) - 1] = last.node
       /\ \A t \in Ticks : \A i \in 1..Len(influence_buffer[n][t]) :
            influence_buffer[n][t][i].path # traces[n][k].path

(* ------------------------------------------------------------------------------------ *)
(* Graphs with context-gated edges: node 2, fed by nodes 1 and 3, has an edge that
   requires ckd, one that requires its absence, one that requires two flags and one
   without context, each to another target *)
ContextCatalogue ==
  << Edge(1, 2, "increases"),
     [Edge(3, 2, "decreases") EXCEPT !.weight = 500],
     [Edge(2, 4, "increases") EXCEPT !.context = ("ckd" :> TRUE)],
     [Edge(2, 1, "decreases") EXCEPT !.context = ("ckd" :> FALSE)],
     [Edge(2, 3, "increases") EXCEPT !.context = ("ckd" :> TRUE) @@ ("dm" :> FALSE)],
     Edge(1, 4, "increases") >>

ContextRequests ==
  {[perturbations |-> p, context |-> c, options |-> SimulationOptions] :
     p \in SubLists(<< [node_id |-> 1, op |-> "increase"], [node_id |-> 3, op |-> "increase"] >>,
                    MaxPerturbations),
     c \in {<<>>, ("ckd" :> TRUE), ("ckd" :> FALSE), ("ckd" :> TRUE) @@ ("dm" :> TRUE)}}

ConstructContext == ConstructWith(SubLists(ContextCatalogue, MaxEdges))

CallContext == CallWith(ContextRequests)

NextContext ==
  ConstructContext \/ CallContext \/ Seed \/ BeginTick \/ ResolveStep \/ EndTick
  \/ BuildResponse

ContextSpec == Init /\ [][NextContext]_vars

(* the request's value of every key of the edge's context, false when the key is
   missing, is the required one *)
Eligible(edge) ==
  \A key \in DOMAIN edge.context :
    (IF key \in DOMAIN request.context THEN request.context[key] ELSE FALSE)
      = edge.context[key]

(* the compiled edges from a to b *)
EdgesBetween(a, b) ==
  {k \in 1..Len(compiled_edges) : compiled_edges[k].source = a /\ compiled_edges[k].target = b}

(* C32: context gating.  Fan-out and secondary trace branches use a compiled edge only if
   the request's context, with missing keys taken as false, gives every key of the edge's
   context its required value: every delivery and every trace goes over an eligible edge,
   and in the graphs here, where no other gate closes, a fan-out delivers over every
   eligible outgoing edge; so an edge requiring a flag is never used when the flag is
   absent, an edge requiring its absence is, and an edge without context always is. *)
C32_ContextGate ==
  pc \in {"loop", "done"} =>
    /\ \A d \in 1..Len(last.deliveries) : Eligible(last.deliveries[d].edge)
    /\ last.outcome = "fan_out" =>
         \A k \in 1..Len(compiled_edges) :
           (compiled_edges[k].source = last.node /\ Eligible(compiled_edges[k]))
             => \E d \in 1..Len(last.deliveries) : last.deliveries[d].edge = compiled_edges[k]
    /\ \A n \in NodeIds : \A k \in 1..Len(traces[n]) :
         \A path \in {traces[n][k].path} :
           \E e \in EdgesBetween(path[Len(path) - 1], path[Len(path)]) :
             Eligible(compiled_edges[e])

(* without the ckd flag in the request a fan-out from node 2 has left out the edge that
   requires it and has used the edge that requires its absence *)
C32_Witness ==
  /\ pc = "loop"
  /\ last.outcome = "fan_out"
  /\ "ckd" \notin DOMAIN request.context
  /\ \E k \in 1..Len(compiled_edges) :
       /\ compiled_edges[k].source = last.node
       /\ compiled_edges[k].context = ("ckd" :> TRUE)
  /\ \E d \in 1..Len(last.deliveries) : last.deliveries[d].edge.context = ("ckd" :> FALSE)

(* a secondary branch has written a trace over the edge that requires ckd *)
C32_WitnessBranch ==
  /\ pc = "done"
  /\ DictGet(request.context, "ckd", FALSE)
  /\ \E k \in 1..Len(traces[4]) : traces[4][k].path = <<3, 2, 4>>

(* ------------------------------------------------------------------------------------ *)
(* Graphs whose nodes have levels and whose edges have activation gates.  Node 1 is the
   perturbed source; it and node 2 come with a default or a constrained range and with a
   baseline level *)
LevelCatalogue ==
  << [Edge(1, 2, "increases") EXCEPT !.weight = 500],
     [Edge(1, 3, "increases") EXCEPT !.activation_threshold = 600],
     [Edge(1, 4, "increases") EXCEPT !.activation_threshold = 300,
                                     !.activation_direction = "down"],
     [Edge(1, 4, "decreases") EXCEPT !.activation_direction = "down"],
     [Edge(2, 3, "increases") EXCEPT !.activation_threshold = 400],
     Edge(2, 4, "increases") >>

NodeProfiles ==
  { [n \in NodeIds |-> Node(n)],
    [n \in NodeIds |-> IF n = 1 THEN [Node(n) EXCEPT !.max_level = 500] ELSE Node(n)],
    [n \in NodeIds |-> IF n = 1 THEN [Node(n) EXCEPT !.min_level = 0 - 500] ELSE Node(n)],
    [n \in NodeIds |-> IF n = 1 THEN [Node(n) EXCEPT !.baseline_level = 0 - 500] ELSE Node(n)],
    [n \in NodeIds |-> IF n = 2 THEN [Node(n) EXCEPT !.max_level = 800] ELSE Node(n)],
    [n \in NodeIds |-> IF n = 2 THEN [Node(n) EXCEPT !.max_level = 500,
                                                     !.baseline_level = 100]
                       ELSE Node(n)] }

LevelRequests ==
  {[perturbations |-> <<[node_id |-> 1, op |-> op]>>, context |-> <<>>,
    options |-> [SimulationOptions EXCEPT !.min_confidence = c]] :
     op \in {"increase", "decrease"}, c \in {SimulationOptions.min_confidence, 50}}

(* ReasoningEngine.__init__ on nodes with levels *)
ConstructLevels ==
  /\ pc = "new"
  /\ \E graph \in SubLists(LevelCatalogue, MaxEdges), profile \in NodeProfiles :
       /\ nodes' = profile
       /\ edges' = graph
       /\ compiled_edges' = _compile_edges(graph)
       /\ adj' = BuildAdj(_compile_edges(graph), "source")
       /\ rev_adj' = BuildAdj(_compile_edges(graph), "target")
  /\ latest_node_states' = EmptyDicts
  /\ pc' = "idle"
  /\ UNCHANGED <<request, sim_vars, response, last, hist>>

CallLevels == CallWith(LevelRequests)

NextLevels ==
  ConstructLevels \/ CallLevels \/ Seed \/ BeginTick \/ ResolveStep \/ EndTick
  \/ BuildResponse

LevelSpec == Init /\ [][NextLevels]_vars

(* the node that has just fanned out, its state and its level *)
SourceState == node_states[last.node][last.tick]

SourceLevel ==
  LET node == nodes[last.node]
      level == node.baseline_level + node_activity[last.node][last.tick]
  IN IF level > node.max_level THEN node.max_level
     ELSE IF level < node.min_level THEN node.min_level ELSE level

GateOpen(edge) ==
  /\ edge.activation_direction \in {"any", SourceState.direction}
  /\ Abs(SourceLevel) >= edge.activation_threshold

Constrained(node) == node.min_level > 0 - One \/ node.max_level < One

Saturated ==
  /\ Constrained(nodes[last.node])
  /\ \/ SourceState.direction = "up" /\ SourceLevel >= nodes[last.node].max_level - 50
     \/ SourceState.direction = "down" /\ SourceLevel <= nodes[last.node].min_level + 50

Damping == IF Saturated THEN 50 ELSE One

DeliveredOver(edge) == \E d \in 1..Len(last.deliveries) : last.deliveries[d].edge = edge

(* C33: activation gate.  A compiled edge with an activation_threshold delivers only if
   its activation_direction is any or the source's direction and the source strength, the
   absolute value of the clamped baseline_level + activity, is at least the threshold; an
   edge without a threshold is not blocked by the gate whatever its activation_direction:
   it delivers whenever the delivery passes min_confidence and min_effect_size. *)
C33_ActivationGate ==
  (pc = "loop" /\ last.outcome = "fan_out") =>
    \A k \in 1..Len(compiled_edges) : \A edge \in {compiled_edges[k]} :
      edge.source = last.node =>
        /\ (edge.activation_threshold # None /\ DeliveredOver(edge)) => GateOpen(edge)
        /\ (edge.activation_threshold = None
              /\ Mul(SourceState.confidence, Damping) >= request.options.min_confidence
              /\ Mul(Mul(SourceState.effect_size, edge.weight), Damping)
                   >= request.options.min_effect_size)
             => DeliveredOver(edge)

(* node 1, perturbed up, has fanned out over its ungated edge that names the direction
   down, and not over the edge with a threshold whose direction is down *)
C33_Witness ==
  /\ pc = "loop"
  /\ last.outcome = "fan_out"
  /\ SourceState.direction = "up"
  /\ \E k \in 1..Len(compiled_edges) :
       /\ compiled_edges[k].source = last.node
       /\ compiled_edges[k].activation_threshold # None
       /\ compiled_edges[k].activation_direction = "down"
       /\ ~DeliveredOver(compiled_edges[k])
  /\ \E d \in 1..Len(last.deliveries) :
       /\ last.deliveries[d].edge.activation_threshold = None
       /\ last.deliveries[d].edge.activation_direction = "down"

(* an edge with a threshold has delivered, and one was blocked by the strength alone *)
C33_WitnessStrength ==
  /\ pc = "loop"
  /\ last.outcome = "fan_out"
  /\ \E k \in 1..Len(compiled_edges) :
       /\ compiled_edges[k].source = last.node
       /\ compiled_edges[k].activation_threshold # None
       /\ compiled_edges[k].activation_direction = "any"
       /\ ~DeliveredOver(compiled_edges[k])
       /\ Abs(SourceLevel) < compiled_edges[k].activation_threshold
       /\ Abs(SourceLevel) > 0

(* C34: saturation gate.  A fan-out from a node with a constrained range in direction up
   at a level of max_level - 0.05 or more, or down at min_level + 0.05 or less, multiplies
   the delivered effect_size and confidence by 0.05 and delivers nothing when 0.05 times
   the resolved confidence is below min_confidence; a node with the default range -1..1
   is never damped. *)
C34_Saturation ==
  (pc = "loop" /\ last.outcome = "fan_out") =>
    /\ \A d \in 1..Len(last.deliveries) : \A dl \in {last.deliveries[d]} :
         /\ Saturated =>
              /\ dl.influence.effect_size = Mul(Mul(SourceState.effect_size, dl.edge.weight), 50)
              /\ dl.influence.confidence = Mul(SourceState.confidence, 50)
         /\ ~Constrained(nodes[last.node]) =>
              /\ dl.influence.effect_size = Mul(SourceState.effect_size, dl.edge.weight)
              /\ dl.influence.confidence = SourceState.confidence
    /\ (Saturated /\ Mul(SourceState.confidence, 50) < request.options.min_confidence)
         => last.deliveries = <<>>

(* a saturated node has delivered an influence damped to 0.05 *)
C34_Witness ==
  /\ pc = "loop"
  /\ last.outcome = "fan_out"
  /\ Saturated
  /\ \E d \in 1..Len(last.deliveries) : last.deliveries[d].influence.confidence = 50

(* a saturated node has delivered nothing under the default min_confidence *)
C34_WitnessDropped ==
  /\ pc = "loop"
  /\ last.outcome = "fan_out"
  /\ Saturated
  /\ Outgoing(adj, last.node) # <<>>
  /\ last.deliveries = <<>>

(* a node with a constrained range has fanned out undamped, below its ceiling *)
C34_WitnessBelowCeiling ==
  /\ pc = "loop"
  /\ last.outcome = "fan_out"
  /\ Constrained(nodes[last.node])
  /\ ~Saturated
  /\ last.deliveries # <<>>

(* ------------------------------------------------------------------------------------ *)
Simple(path) == \A i, j \in 1..Len(path) : i # j => path[i] # path[j]

(* C35: trace paths are simple.  No path that the dominant fan-out hands to _upsert_trace
   has the same node at two consecutive positions or any node twice, also on graphs with
   self-loops and immediate cycles through a perturbed node. *)
C35_SimplePaths ==
  (pc = "loop" /\ last.outcome = "fan_out") =>
    \A d \in 1..Len(last.deliveries) : Simple(last.deliveries[d].influence.path)

(* a returned simulation whose traces of node 2 hold a path written by the fan-out of
   node 2 over its self-loop, with node 2 at its last two positions *)
C35_NotSimple ==
  /\ pc = "done"
  /\ \E k \in 1..Len(traces[2]) : \E inf \in Elements(influence_buffer[2][0]) :
       /\ traces[2][k].path = inf.path
       /\ HasSelfLoopStep(inf.path)

(* the same with a path round the immediate cycle 2 -> 3 -> 2 *)
C35_NotSimpleCycle ==
  /\ pc = "done"
  /\ \E k \in 1..Len(traces[2]) : \E inf \in Elements(influence_buffer[2][0]) :
       /\ traces[2][k].path = inf.path
       /\ HasImmediateRevisit(inf.path)
       /\ ~HasSelfLoopStep(inf.path)

(* ------------------------------------------------------------------------------------ *)
(* Graphs where node 2 is delivered to twice within tick 0, by node 1 and later by node 3,
   delivers to itself, and delivers to node 4 in a later tick *)
DeliveryCatalogue ==
  << Edge(1, 2, "increases"),
     [Edge(3, 2, "decreases") EXCEPT !.priority = "high", !.weight = 500],
     [Edge(2, 4, "increases") EXCEPT !.delay = "minutes"],
     [Edge(2, 2, "decreases") EXCEPT !.weight = 500],
     [Edge(4, 1, "increases") EXCEPT !.delay = "hours"] >>

DeliveryRequests ==
  {[perturbations |-> p, context |-> <<>>, options |-> SimulationOptions] :
     p \in SubLists(<<[node_id |-> 1, op |-> "increase"], [node_id |-> 3, op |-> "increase"]>>,
                    MaxPerturbations)}

ConstructDelivery == ConstructWith(SubLists(DeliveryCatalogue, MaxEdges))

CallDelivery == CallWith(DeliveryRequests)

NextDelivery ==
  ConstructDelivery \/ CallDelivery \/ Seed \/ BeginTick \/ ResolveStep \/ EndTick
  \/ BuildResponse

(* simulate runs to its return statement without being suspended *)
DeliverySpec == Init /\ [][NextDelivery]_vars /\ WF_vars(NextDelivery)

(* the step just taken appended an influence to influence_buffer[n][t] *)
AppendedTo(n, t) ==
  \/ pc = "tick" /\ tick = 0 /\ t = 0 /\ influence_buffer[n][0] # <<>>
  \/ /\ pc = "loop"
     /\ last.outcome = "fan_out"
     /\ \E d \in 1..Len(last.deliveries) :
          last.deliveries[d].edge.target = n /\ last.deliveries[d].tick = t

(* the step just taken called the resolver on the whole of influence_buffer[n][t] as it
   is now: the iteration popped n in tick t, found the bucket and added nothing to it *)
ResolverCalled(n, t) ==
  /\ pc = "loop"
  /\ tick = t
  /\ last.node = n
  /\ last.tick = t
  /\ last.outcome \notin {"start", "empty"}
  /\ ~AppendedTo(n, t)

Occurrences(seq, x) == Cardinality({i \in 1..Len(seq) : seq[i] = x})

ReadyListOk ==
  pc = "loop" =>
    /\ \A i \in 1..(Len(nodes_to_resolve) - 1) : nodes_to_resolve[i] < nodes_to_resolve[i + 1]
    /\ queued_nodes = Elements(nodes_to_resolve)

DeliveriesOk ==
  (pc = "loop" /\ last.outcome = "fan_out") =>
    \A d \in 1..Len(last.deliveries) : \A dl \in {last.deliveries[d]} :
      /\ dl.tick >= last.tick
      /\ dl.tick <= max_tick
      /\ dl.tick = last.tick => Occurrences(nodes_to_resolve, dl.edge.target) = 1

(* C36: no delivered influence is lost.  Every influence appended to a bucket
   influence_buffer[n][t] is followed, before simulate returns, by a resolver call on that
   bucket that sees it; a same-tick delivery to a node that was already popped puts the
   node on the ready list again exactly once, the ready list stays sorted and free of
   duplicates, and no delivery goes to a tick before the one being processed. *)
C36_NoLoss ==
  /\ \A n \in NodeIds : \A t \in Ticks : AppendedTo(n, t) ~> ResolverCalled(n, t)
  /\ []ReadyListOk
  /\ []DeliveriesOk

(* node 2 was popped and resolved, node 3 then delivered to it within the same tick, and
   node 2 is on the ready list again, once *)
C36_Witness ==
  /\ pc = "loop"
  /\ last.outcome = "fan_out"
  /\ last.node = 3
  /\ last.tick \in DOMAIN node_states[2]
  /\ AppendedTo(2, last.tick)
  /\ nodes_to_resolve = <<2>>

(* node 2 has delivered to itself over its self-loop: the iteration that appended is not
   the resolver call that sees the influence *)
C36_WitnessSelf ==
  /\ pc = "loop"
  /\ last.node = 2
  /\ AppendedTo(2, last.tick)
  /\ nodes_to_resolve = <<2>>

(* a delivery to a later tick has been resolved in that tick *)
C36_WitnessDelayed ==
  /\ ResolverCalled(4, 1)
  /\ Len(influence_buffer[4][1]) >= 1

(* ------------------------------------------------------------------------------------ *)
(* what lines 146-153 compute for a delivery over edge from the state recorded for its
   source at tick ts *)
DeliveredFrom(edge, ts) ==
  LET s == edge.source
      state == node_states[s][ts]
      level == _source_level(nodes[s], ts, node_activity[s])
      threshold_gain == _activation_threshold_gain(edge, state.direction, Abs(level))
      saturation_gain == _saturation_gain(nodes[s], state.direction, level)
      time_gain == IF ~edge.is_legacy_timing THEN One ELSE _time_constant_gain(nodes[s])
  IN [effect_size |-> _clamp(Mul(Mul(Mul(Mul(state.effect_size, edge.weight), threshold_gain),
                                     saturation_gain), time_gain), 0, One),
      confidence |-> _clamp(Mul(Mul(state.confidence, threshold_gain), saturation_gain),
                            0, One)]

(* the influence at (n, t) is what some compiled edge into n delivers from the final
   state of the node before n on its path *)
FromFinalState(inf, n, t) ==
  \E k \in 1..Len(compiled_edges) : \E edge \in {compiled_edges[k]} :
    /\ edge.target = n
    /\ edge.source = inf.path[Len(inf.path) - 1]
    /\ t - edge.at_tick \in DOMAIN node_states[edge.source]
    /\ \E out \in {DeliveredFrom(edge, t - edge.at_tick)} :
         inf.effect_size = out.effect_size /\ inf.confidence = out.confidence

(* C37: downstream consistency with the final source state.  When simulate returns, every
   influence that a fan-out delivered from source s at tick t over a compiled edge e has
   effect_size clamp01(E * e.weight * gains) and confidence clamp(C * gains), with E and C
   those of the final node_states[s][t]: no source whose state changed after it fanned
   out leaves stale influences downstream. *)
C37_FinalState ==
  pc = "done" =>
    \A n \in NodeIds : \A t \in Ticks : \A i \in 1..Len(influence_buffer[n][t]) :
      \A inf \in {influence_buffer[n][t][i]} :
        Len(inf.path) >= 2 => FromFinalState(inf, n, t)

(* simulate has returned; node 2 fanned out to node 4 as up with effect_size 1.0 and was
   then resolved again, to effect_size 0.5, without fanning out: node 4 keeps the
   influence, and the state, computed from 1.0 *)
C37_Stale ==
  /\ pc = "done"
  /\ 0 \in DOMAIN node_states[2]
  /\ node_states[2][0].direction = "up"
  /\ node_states[2][0].effect_size = 500
  /\ Len(influence_buffer[4][0]) = 1
  /\ influence_buffer[4][0][1].path = <<1, 2, 4>>
  /\ influence_buffer[4][0][1].effect_size = One
  /\ 0 \in DOMAIN node_states[4]
  /\ node_states[4][0].effect_size = One

(* ------------------------------------------------------------------------------------ *)
PerturbedIds == {request.perturbations[i].node_id : i \in 1..Len(request.perturbations)}

AffectedNow == {n \in NodeIds : node_states[n] # <<>>}

WellFormed(trace, t) ==
  /\ Len(trace.path) >= 2
  /\ trace.path[1] \in PerturbedIds
  /\ trace.path[Len(trace.path)] = t
  /\ \A i \in 1..(Len(trace.path) - 1) :
       \E e \in EdgesBetween(trace.path[i], trace.path[i + 1]) : Eligible(compiled_edges[e])
  /\ Len(trace.steps) = Len(trace.path) - 1
  /\ \A i \in 1..Len(trace.steps) :
       trace.steps[i].source = trace.path[i] /\ trace.steps[i].target = trace.path[i + 1]

(* C38: trace well-formedness.  Every trace stored under traces[t], written by the fan-out
   or by a secondary branch, starts at a perturbed node of the request, ends at t, joins
   every consecutive pair of its path by a compiled edge whose context matches the request
   and has one step per edge; and every affected node that is not itself perturbed has at
   least one trace. *)
C38_WellFormed ==
  pc \in {"loop", "done"} =>
    /\ \A t \in NodeIds : \A k \in 1..Len(traces[t]) : WellFormed(traces[t][k], t)
    /\ \A n \in AffectedNow \ PerturbedIds : traces[n] # <<>>
    /\ pc = "done" => response.traces = traces

(* a returned simulation with a trace written by the fan-out and one written by a
   secondary branch only: its path is not the path of any delivered influence *)
C38_Witness ==
  /\ pc = "done"
  /\ AffectedNow \ PerturbedIds # {}
  /\ \E t \in NodeIds : \E k \in 1..Len(traces[t]) :
       \E tk \in Ticks : \E inf \in Elements(influence_buffer[t][tk]) :
         inf.path = traces[t][k].path
  /\ \E t \in NodeIds : \E k \in 1..Len(traces[t]) :
       \A tk \in Ticks : \A inf \in Elements(influence_buffer[t][tk]) :
         inf.path # traces[t][k].path

(* ------------------------------------------------------------------------------------ *)
Hops(path) == Len(path) - 1

(* the paths of the influences delivered to node n, at any tick *)
DeliveredPaths(n) == {inf.path : inf \in UNION {Elements(influence_buffer[n][t]) : t \in Ticks}}

(* C39 as stated: every trace path of the response, secondary ones included, has at most
   options.max_hops edges *)
C39_DepthBound ==
  pc = "done" =>
    \A n \in NodeIds : \A k \in 1..Len(response.traces[n]) :
      Hops(response.traces[n][k].path) <= request.options.max_hops

(* C39, amended: the hop limit bounds the fan-out, not the secondary branches.  Every path
   the fan-out delivers and traces has at most max_hops edges; every other trace path is a
   delivered path of its last-but-one node extended by one edge, and so has at most
   max_hops + 1 edges. *)
C39_DepthBoundFanOut ==
  /\ (pc = "loop" /\ last.outcome = "fan_out") =>
       \A d \in 1..Len(last.deliveries) :
         Hops(last.deliveries[d].influence.path) <= request.options.max_hops
  /\ pc = "done" =>
       \A n \in NodeIds : \A k \in 1..Len(response.traces[n]) :
         \A path \in {response.traces[n][k].path} :
           /\ path \in DeliveredPaths(n) => Hops(path) <= request.options.max_hops
           /\ path \notin DeliveredPaths(n) =>
                /\ SubSeq(path, 1, Len(path) - 1) \in DeliveredPaths(path[Len(path) - 1])
                /\ Hops(path) <= request.options.max_hops + 1

(* a returned simulation with max_hops = 1: node 2 stopped its fan-out at the limit, and a
   secondary branch of node 2 wrote a trace of two edges for node 4, which is not
   affected *)
C39_Witness ==
  /\ pc = "done"
  /\ request.options.max_hops = 1
  /\ node_states[4] = <<>>
  /\ \E k \in 1..Len(response.traces[4]) :
       /\ Hops(response.traces[4][k].path) = 2
       /\ response.traces[4][k].path \notin DeliveredPaths(4)
  /\ \E k \in 1..Len(response.traces[2]) : Hops(response.traces[2][k].path) = 1

(* ------------------------------------------------------------------------------------ *)
(* GET /graph next to the other handlers: the coroutine returns the globals nodes, edges
   and rules and the loader's own list of syndromes, without awaiting; the task keeps what
   it returned *)
get_graph ==
  /\ \E t \in HttpRequests :
       /\ request[t].kind = "none"
       /\ MayRun(t)
       /\ request' = [request EXCEPT ![t] =
                        [NoTask EXCEPT !.kind = "graph", !.at = "done",
                                       !.ran = <<[nodes |-> nodes, edges |-> edges,
                                                  rules |-> last.rules,
                                                  syndromes |-> last.syndromes]>>]]
  /\ UNCHANGED <<nodes, edges, last>>
  /\ ApiUnchanged

NextGraph == NextApi \/ get_graph

GraphSpec == ApiInit /\ [][NextGraph]_vars

(* the number of the last load that did not raise *)
LastSuccessfulLoad ==
  LET good == {1} \cup {request[t].loaded : t \in {u \in HttpRequests :
                          request[u].at \in {"store_nodes", "store_edges", "store_rules",
                                             "construct", "simulate", "baseline",
                                             "intervention", "done"}
                          /\ request[u].kind # "graph"}}
  IN CHOOSE k \in good : \A j \in good : j <= k

(* C40: a failed reload keeps the served snapshot.  If load_all raises during a reload,
   what is served afterwards is unchanged and consistent: /graph returns nodes, edges,
   rules and syndromes of the last successful load, the engine of later simulations is
   built from that load, and the failing request ends in an error without a simulation
   result. *)
C40_FailedReloadKeeps ==
  pc = "serving" =>
    /\ \A t \in HttpRequests :
         /\ request[t].at = "failed" => request[t].ran = <<>>
         /\ request[t].kind = "graph" =>
              \A g \in {request[t].ran[1]} :
                g.nodes = g.edges /\ g.edges = g.rules /\ g.rules = g.syndromes
    /\ last.running = 0 =>
         /\ nodes = LastSuccessfulLoad
         /\ edges = LastSuccessfulLoad
         /\ last.rules = LastSuccessfulLoad
         /\ last.engine = ReasoningEngine(LastSuccessfulLoad, LastSuccessfulLoad,
                                          LastSuccessfulLoad)
         /\ last.syndromes = LastSuccessfulLoad

(* a reload has raised and a later GET /graph has returned the nodes, edges and rules of
   the first load with the syndromes the loader took from the failed one, while the
   engine still holds the syndromes of the first load *)
C40_Witness ==
  /\ pc = "serving"
  /\ \E t \in HttpRequests : \E u \in HttpRequests :
       /\ request[t].at = "failed"
       /\ request[t].ran = <<>>
       /\ request[u].kind = "graph"
       /\ request[u].ran[1].nodes = 1
       /\ request[u].ran[1].edges = 1
       /\ request[u].ran[1].rules = 1
       /\ request[u].ran[1].syndromes = request[t].loaded
       /\ request[t].loaded = 2
  /\ last.engine = ReasoningEngine(1, 1, 1)
  /\ nodes = 1

====
